---- MODULE Spec2Model ----
(***************************************************************************)
(* kapitanov/gptbot: the Markdown-to-Telegram-entities converters and the  *)
(* bot around them.                                                        *)
(*                                                                         *)
(* The repository holds the converter in several implementations:          *)
(*   - the tree-walking `converter` over the gomarkdown AST                *)
(*     (package mdparser, Parse/Visit/begin/Result),                       *)
(*   - the line/regex based `telegramMarkdownParser` (package mdparser,    *)
(*     parse/processLines/processInlineMarkdown),                          *)
(*   - the inline passes of the JavaScript TelegramMarkdownParser.         *)
(* Around them: the access provider (Go and JavaScript), the conversation  *)
(* storage (the Go Storage with its mutex and MessageChain, the JavaScript *)
(* Storage with its promise chain), and the Telegram handlers (generate,   *)
(* generateE, reply) in the tgbotapi and the telebot versions.             *)
(* Text is modelled as a sequence of Unicode code points (naturals), so    *)
(* that rune counts and UTF-16 code-unit counts differ on non-BMP input.   *)
(***************************************************************************)
EXTENDS Integers, Sequences, FiniteSets, TLC

VARIABLES
    doc,      \* tree converter: the parsed ast.Document handed to Visit
    c,        \* tree converter: the converter struct (out, entities, curRunes, curUnits)
    idx,      \* tree converter: index of the next child of the document to visit
    pc,       \* tree converter: "visit" while walking, "done" after Result, "panic" after a panic
    res,      \* tree converter: the (text, entities) pair returned by Parse
    src,      \* regex parser: the markdown text handed to Parse
    p,        \* regex parser: the telegramMarkdownParser struct (output, entities, pos)
    loop,     \* regex parser: processLines' locals (text, lines, i, listCounter, inOrderedList)
    rpc,      \* regex parser: "start", "lines" while in the loop, "done" after parse;
              \* JavaScript parser: "inline", "inlined", "done"
    rres,     \* regex parser: the (text, entities) pair returned by parse
    ap,       \* access provider: the access string, the query and CheckAccess' answer
    file,     \* storage: the conversations in the YAML file, per user id
    mutex,    \* storage: Storage.mutex, 0 when free, else the goroutine holding it
    tg,       \* telegram: per goroutine of handleUpdate, its message, locals and position
    rp,       \* telegram: the locals of reply (remaining text, chunks sent, returned message)
    js        \* JavaScript storage: the promise chain this.mutex, the file and the calls made

treeVars == <<doc, c, idx, pc, res>>
regexVars == <<src, p, loop, rpc, rres>>
serviceVars == <<ap, file, mutex, tg, rp, js>>
vars == <<doc, c, idx, pc, res, src, p, loop, rpc, rres, ap, file, mutex, tg, rp, js>>

\* the bot's services not in use
AccessIdle == ap = <<>>
StorageIdle == file = <<>> /\ mutex = 0 /\ tg = <<>>
ReplyIdle == rp = <<>>
JsIdle == js = <<>>
ServiceIdle == AccessIdle /\ StorageIdle /\ ReplyIdle /\ JsIdle

(***************************************************************************)
(* Code points used by the program text and by the inputs.                 *)
(***************************************************************************)
NL == 10
CR == 13
SP == 32
MaxBMP == 65535
ChA == 97
ChB == 98
ChU == 117
ChEmoji == 128512
Ch0 == 48
Ch9 == 57
ChDot == 46
TAB == 9
FF == 12
ChHash == 35
ChLPar == 40
ChRPar == 41
ChStar == 42
ChPlus == 43
ChMinus == 45
ChGt == 62
ChUpA == 65
ChUpZ == 90
ChLBr == 91
ChRBr == 93
ChUnderscore == 95
ChBacktick == 96
ChZ == 122
ChTilde == 126
ChBullet == 8226
ChComma == 44
ChSemi == 59
ChAt == 64

(***************************************************************************)
(* Generic sequence helpers.                                               *)
(***************************************************************************)

\* strings.ReplaceAll(str, "\r\n", "\n")
RECURSIVE ReplaceCRLF(_)
ReplaceCRLF(s) ==
    IF s = <<>> THEN <<>>
    ELSE IF Len(s) >= 2 /\ s[1] = CR /\ s[2] = NL
         THEN <<NL>> \o ReplaceCRLF(SubSeq(s, 3, Len(s)))
         ELSE <<s[1]>> \o ReplaceCRLF(Tail(s))

\* strings.TrimRight(s, "\n")
RECURSIVE TrimRightNL(_)
TrimRightNL(s) ==
    IF s # <<>> /\ s[Len(s)] = NL THEN TrimRightNL(SubSeq(s, 1, Len(s) - 1)) ELSE s

(***************************************************************************)
(* The gomarkdown AST, as far as the converter reads it.  A node is a      *)
(* container (children) or a leaf (literal); Heading carries level, Link   *)
(* destination, CodeBlock info, List the ordered flag and start.           *)
(***************************************************************************)
Node(t, ch, lit, lvl, dst, inf, ord, st) ==
    [type |-> t, children |-> ch, literal |-> lit, level |-> lvl,
     dest |-> dst, info |-> inf, ordered |-> ord, start |-> st]

Container(t, ch) == Node(t, ch, <<>>, 0, <<>>, <<>>, FALSE, 0)
Leaf(t, lit) == Node(t, <<>>, lit, 0, <<>>, <<>>, FALSE, 0)

Text(lit) == Leaf("Text", lit)
Code(lit) == Leaf("Code", lit)
Strong(ch) == Container("Strong", ch)
Emph(ch) == Container("Emph", ch)
Del(ch) == Container("Del", ch)
Link(dst, ch) == Node("Link", ch, <<>>, 0, dst, <<>>, FALSE, 0)
Paragraph(ch) == Container("Paragraph", ch)
Heading(lvl, ch) == Node("Heading", ch, <<>>, lvl, <<>>, <<>>, FALSE, 0)
CodeBlock(inf, lit) == Node("CodeBlock", <<>>, lit, 0, <<>>, inf, FALSE, 0)
ListItem(ch) == Container("ListItem", ch)
List(ord, st, items) == Node("List", items, <<>>, 0, <<>>, <<>>, ord, st)
BlockQuote(ch) == Container("BlockQuote", ch)
Document(ch) == Container("Document", ch)

TableCell(ch) == Container("TableCell", ch)
TableRow(cells) == Container("TableRow", cells)
TableHeader(rows) == Container("TableHeader", rows)
TableBody(rows) == Container("TableBody", rows)
Table(ch) == Container("Table", ch)

LeafTypes == {"Text", "Code", "CodeBlock"}
IsLeaf(node) == node.type \in LeafTypes

(***************************************************************************)
(* telebot.MessageEntity and the converter struct.                         *)
(***************************************************************************)
MessageEntity(t, url, lang) ==
    [Type |-> t, Offset |-> 0, Length |-> 0, URL |-> url, Language |-> lang]

NewConverter == [out |-> <<>>, entities |-> <<>>, curRunes |-> 0, curUnits |-> 0]

\* utf16Len: one unit per rune up to 0xFFFF, two above (surrogate pair)
RECURSIVE utf16Len(_)
utf16Len(s) ==
    IF s = <<>> THEN 0
    ELSE (IF Head(s) <= MaxBMP THEN 1 ELSE 2) + utf16Len(Tail(s))

writeText(cv, str) ==
    LET s == ReplaceCRLF(str)
    IN [cv EXCEPT !.out = @ \o s,
                  !.curRunes = @ + Len(s),
                  !.curUnits = @ + utf16Len(s)]

writeBytes(cv, s) == writeText(cv, s)

\* ensureNewline without the look at the buffer's last byte
ensureNewlineAlways(cv) == IF Len(cv.out) = 0 THEN cv ELSE writeText(cv, <<NL>>)

ensureNewline(cv) ==
    IF Len(cv.out) = 0 THEN cv
    ELSE IF cv.out[Len(cv.out)] # NL THEN writeText(cv, <<NL>>) ELSE cv

\* begin with the start taken from the rune counter: the offset a converter
\* counting scalar values instead of UTF-16 units would record
beginRunes(cv) == cv.curRunes

\* begin: the start offset the returned closure captures
begin(cv) == cv.curUnits

\* the closure returned by begin: one entity per argument, all over [start, curUnits)
RECURSIVE endEntities(_, _, _)
endEntities(cv, start, entities) ==
    IF entities = <<>> THEN cv
    ELSE endEntities(
            [cv EXCEPT !.entities =
                Append(@, [Head(entities) EXCEPT !.Offset = start,
                                                 !.Length = cv.curUnits - start])],
            start, Tail(entities))

\* fmt.Sprintf("%d", n) for n >= 0
RECURSIVE Itoa(_)
Itoa(n) == IF n < 10 THEN <<Ch0 + n>> ELSE Itoa(n \div 10) \o <<Ch0 + (n % 10)>>

\* the bullet literal of visitBulletList as the source file holds it
BulletPrefix == <<226, 8364, 162, SP>>

RECURSIVE Visit(_, _, _)

\* the loop of visitGeneric over a container's children
RECURSIVE visitChildren(_, _, _)
visitChildren(cv, ch, i) ==
    IF i > Len(ch) THEN cv
    ELSE visitChildren(Visit(cv, ch[i], i > 1), ch, i + 1)

visitGeneric(cv, node) ==
    IF IsLeaf(node) THEN writeBytes(cv, node.literal)
    ELSE visitChildren(cv, node.children, 1)

\* wrap: begin(entities...), visitGeneric(node), end()
visitSpan(cv, node, entities) ==
    LET start == begin(cv)
    IN endEntities(visitGeneric(cv, node), start, entities)

visitParagraph(cv, node, hasPrev) ==
    visitGeneric(IF hasPrev THEN ensureNewline(cv) ELSE cv, node)

visitStrong(cv, node) == visitSpan(cv, node, <<MessageEntity("bold", <<>>, <<>>)>>)

visitEmph(cv, node) == visitSpan(cv, node, <<MessageEntity("italic", <<>>, <<>>)>>)

visitDel(cv, node) == visitSpan(cv, node, <<MessageEntity("strikethrough", <<>>, <<>>)>>)

\* visitLink writing the destination in front of the label
visitLinkDestination(cv, node) ==
    visitSpan(writeBytes(cv, node.dest), node, <<MessageEntity("text_link", node.dest, <<>>)>>)

visitLink(cv, node) == visitSpan(cv, node, <<MessageEntity("text_link", node.dest, <<>>)>>)

\* headingEntities with bold at every level
headingEntitiesBold(node) ==
    <<MessageEntity("underline", <<>>, <<>>), MessageEntity("bold", <<>>, <<>>)>>

headingEntities(node) ==
    <<MessageEntity("underline", <<>>, <<>>)>>
    \o (IF node.level = 1 THEN <<MessageEntity("bold", <<>>, <<>>)>> ELSE <<>>)

visitHeading(cv, node) ==
    writeBytes(visitSpan(writeBytes(cv, <<NL, NL>>), node, headingEntities(node)), <<NL>>)

visitCode(cv, node) == visitSpan(cv, node, <<MessageEntity("code", <<>>, <<>>)>>)

visitCodeBlock(cv, node) ==
    visitSpan(ensureNewline(cv), node, <<MessageEntity("pre", <<>>, node.info)>>)

RECURSIVE visitBulletList(_, _, _)
visitBulletList(cv, node, i) ==
    IF i > Len(node.children) THEN cv
    ELSE visitBulletList(
            writeText(Visit(writeText(cv, BulletPrefix), node.children[i], i > 1), <<NL>>),
            node, i + 1)

RECURSIVE visitOrderedList(_, _, _)
visitOrderedList(cv, node, i) ==
    LET start == IF node.start = 0 THEN 1 ELSE node.start
    IN IF i > Len(node.children) THEN cv
       ELSE visitOrderedList(
               writeText(Visit(writeText(cv, Itoa((i - 1) + start) \o <<ChDot, SP>>),
                               node.children[i], i > 1),
                         <<NL>>),
               node, i + 1)

visitList(cv, node) ==
    IF node.ordered THEN visitOrderedList(ensureNewline(cv), node, 1)
    ELSE visitBulletList(ensureNewline(cv), node, 1)

visitBlockQuote(cv, node) == visitSpan(cv, node, <<MessageEntity("blockquote", <<>>, <<>>)>>)

\* renderNodeText: the literals of a cell's leaves, inline formatting discarded
RECURSIVE renderNodeText(_)
RECURSIVE renderNodeTexts(_, _)
renderNodeText(node) ==
    IF IsLeaf(node) THEN node.literal ELSE renderNodeTexts(node.children, 1)

renderNodeTexts(ch, i) ==
    IF i > Len(ch) THEN <<>> ELSE renderNodeText(ch[i]) \o renderNodeTexts(ch, i + 1)

renderTableCellText(node) == renderNodeText(node)

OfType(nodes, t) == SelectSeq(nodes, LAMBDA n : n.type = t)

\* traverseTableRows: the rows of the last header, body and footer, in that order
LastRows(containers) ==
    IF containers = <<>> THEN <<>>
    ELSE OfType(containers[Len(containers)].children, "TableRow")

traverseTableRows(table) ==
    LastRows(OfType(table.children, "TableHeader"))
    \o LastRows(OfType(table.children, "TableBody"))
    \o LastRows(OfType(table.children, "TableFooter"))

tableRow(cells) == [j \in 1..Len(cells) |-> renderTableCellText(cells[j])]

tableRows(rows) == [i \in 1..Len(rows) |-> tableRow(OfType(rows[i].children, "TableCell"))]

tableContent(node) == tableRows(traverseTableRows(node))

\* mdtable.Generate, a library that is not part of the sources: the grid as the
\* specification describes it. A column is as wide as its widest cell, cells
\* are padded with spaces (a missing cell is empty), columns are joined with
\* " | " between "|" borders, and one row of "-" follows the header.
Max(S) == CHOOSE x \in S : \A y \in S : x >= y

Repeat(ch, n) == [k \in 1..n |-> ch]

CellAt(row, j) == IF j <= Len(row) THEN row[j] ELSE <<>>

ColumnWidth(data, j) == Max({Len(CellAt(data[i], j)) : i \in 1..Len(data)})

PadCell(cell, w) == cell \o Repeat(SP, w - Len(cell))

RECURSIVE GridCells(_, _, _, _)
GridCells(data, row, j, n) ==
    IF j > n THEN <<>>
    ELSE <<SP>> \o PadCell(CellAt(row, j), ColumnWidth(data, j)) \o <<SP, 124>>
         \o GridCells(data, row, j + 1, n)

RECURSIVE GridRule(_, _, _)
GridRule(data, j, n) ==
    IF j > n THEN <<>>
    ELSE Repeat(ChMinus, ColumnWidth(data, j) + 2) \o <<124>> \o GridRule(data, j + 1, n)

RECURSIVE GridRows(_, _, _)
GridRows(data, i, n) ==
    IF i > Len(data) THEN <<>>
    ELSE <<124>> \o GridCells(data, data[i], 1, n) \o <<NL>>
         \o (IF i = 1 THEN <<124>> \o GridRule(data, 1, n) \o <<NL>> ELSE <<>>)
         \o GridRows(data, i + 1, n)

mdtableGenerate(data) ==
    IF data = <<>> THEN <<>>
    ELSE GridRows(data, 1, Max({Len(data[i]) : i \in 1..Len(data)}))

\* visitTable with the table text wrapped into an entity after ensureNewline
visitTableWide(cv, node) ==
    endEntities(writeBytes(ensureNewline(cv), mdtableGenerate(tableContent(node))),
                begin(cv), <<MessageEntity("pre", <<>>, <<>>)>>)

\* ensureNewline, begin, writeBytes(tableText), end
writeTable(cv, tableText) ==
    endEntities(writeBytes(cv, tableText), begin(cv), <<MessageEntity("pre", <<>>, <<>>)>>)

visitTable(cv, node) == writeTable(ensureNewline(cv), mdtableGenerate(tableContent(node)))

Visit(cv, node, hasPrev) ==
    CASE node.type = "Paragraph" -> visitParagraph(cv, node, hasPrev)
      [] node.type = "Strong" -> visitStrong(cv, node)
      [] node.type = "Emph" -> visitEmph(cv, node)
      [] node.type = "Del" -> visitDel(cv, node)
      [] node.type = "Link" -> visitLink(cv, node)
      [] node.type = "Heading" -> visitHeading(cv, node)
      [] node.type = "Code" -> visitCode(cv, node)
      [] node.type = "CodeBlock" -> visitCodeBlock(cv, node)
      [] node.type = "List" -> visitList(cv, node)
      [] node.type = "BlockQuote" -> visitBlockQuote(cv, node)
      [] node.type = "Table" -> visitTable(cv, node)
      [] OTHER -> visitGeneric(cv, node)

\* Result cutting one trailing newline at most
ResultChomp(cv) ==
    [text |-> IF cv.out # <<>> /\ cv.out[Len(cv.out)] = NL
              THEN SubSeq(cv.out, 1, Len(cv.out) - 1) ELSE cv.out,
     entities |-> cv.entities]

Result(cv) == [text |-> TrimRightNL(cv.out), entities |-> cv.entities]

(***************************************************************************)
(* The regex parser (telegramMarkdownParser): string and regexp helpers.   *)
(* Positions are 1-based here; a match is [start, end) like Go's index     *)
(* pairs shifted by one.                                                   *)
(***************************************************************************)
Min(S) == CHOOSE x \in S : \A y \in S : x <= y

From(s, i) == SubSeq(s, i, Len(s))

\* a space test that forgets the tab
IsSpaceNoTab(ch) == ch \in {NL, 11, FF, CR, SP, 133, 160}

\* unicode.IsSpace on the Latin-1 range (strings.TrimSpace)
IsSpace(ch) == ch \in {TAB, NL, 11, FF, CR, SP, 133, 160}

\* the regexp class \s
IsReSpace(ch) == ch \in {TAB, NL, FF, CR, SP}

\* the regexp class \d
IsDigit(ch) == ch \in Ch0..Ch9

\* the regexp class [a-zA-Z0-9_+-]
IsLangCh(ch) ==
    \/ ch \in ChA..ChZ
    \/ ch \in ChUpA..ChUpZ
    \/ ch \in Ch0..Ch9
    \/ ch \in {ChUnderscore, ChPlus, ChMinus}

RECURSIVE TrimLeftSpace(_)
TrimLeftSpace(s) == IF s # <<>> /\ IsSpace(s[1]) THEN TrimLeftSpace(Tail(s)) ELSE s

RECURSIVE TrimRightSpace(_)
TrimRightSpace(s) ==
    IF s # <<>> /\ IsSpace(s[Len(s)]) THEN TrimRightSpace(SubSeq(s, 1, Len(s) - 1)) ELSE s

TrimSpace(s) == TrimRightSpace(TrimLeftSpace(s))

HasPrefixAt(s, i, pat) ==
    /\ i + Len(pat) - 1 <= Len(s)
    /\ \A k \in 1..Len(pat) : s[i + k - 1] = pat[k]

HasSuffix(s, pat) == Len(s) >= Len(pat) /\ HasPrefixAt(s, Len(s) - Len(pat) + 1, pat)

Contains(s, pat) == \E i \in 1..(Len(s) + 1) : HasPrefixAt(s, i, pat)

\* strings.ReplaceAll(s, pat, "") for a non-empty pat
RECURSIVE RemoveAll(_, _)
RemoveAll(s, pat) ==
    IF s = <<>> THEN <<>>
    ELSE IF HasPrefixAt(s, 1, pat) THEN RemoveAll(From(s, Len(pat) + 1), pat)
    ELSE <<s[1]>> \o RemoveAll(Tail(s), pat)

\* strings.Split(s, "\n")
RECURSIVE SplitLines(_)
SplitLines(s) ==
    LET nl == {i \in 1..Len(s) : s[i] = NL}
    IN IF nl = {} THEN <<s>>
       ELSE <<SubSeq(s, 1, Min(nl) - 1)>> \o SplitLines(From(s, Min(nl) + 1))

\* first position >= i holding ch, Len(s)+1 when there is none
RunEnd(s, i, ch) ==
    LET hits == {j \in i..Len(s) : s[j] = ch}
    IN IF hits = {} THEN Len(s) + 1 ELSE Min(hits)

\* first position >= i not satisfying the character class, Len(s)+1 when none
ClassEnd(s, i, InClass(_)) ==
    LET stops == {j \in i..Len(s) : ~InClass(s[j])}
    IN IF stops = {} THEN Len(s) + 1 ELSE Min(stops)

NoMatch == [ok |-> FALSE, start |-> 0, end |-> 0, content |-> <<>>, patType |-> "", url |-> <<>>]

\* "\x00CODEBLOCK_PROCESSED\x00"
Marker == <<0, 67, 79, 68, 69, 66, 76, 79, 67, 75, 95, 80, 82, 79, 67, 69, 83, 83, 69, 68, 0>>

Fence == <<ChBacktick, ChBacktick, ChBacktick>>

\* ((?:[^`]|`[^`]|``[^`])*?)``` from position q: the position of the closing fence,
\* 0 when the body cannot reach one
RECURSIVE FenceClose(_, _)
FenceClose(s, q) ==
    IF q > Len(s) THEN 0
    ELSE IF HasPrefixAt(s, q, Fence) THEN q
    ELSE IF s[q] # ChBacktick THEN FenceClose(s, q + 1)
    ELSE IF q + 1 <= Len(s) /\ s[q + 1] # ChBacktick THEN FenceClose(s, q + 2)
    ELSE IF q + 2 <= Len(s) /\ s[q + 1] = ChBacktick /\ s[q + 2] # ChBacktick
         THEN FenceClose(s, q + 3)
    ELSE 0

\* ```(?:([a-zA-Z0-9_+-]+)\n)?((?:[^`]|`[^`]|``[^`])*?)``` matched at position i:
\* patType holds nothing, url holds the language group, content the body group
CodeBlockClosed(s, i, lang, body, close) ==
    IF close = 0 THEN NoMatch
    ELSE [ok |-> TRUE, start |-> i, end |-> close + 3,
          content |-> SubSeq(s, body, close - 1), patType |-> "pre", url |-> lang]

CodeBlockLang(s, i, langEnd) ==
    IF langEnd > i + 3 /\ langEnd <= Len(s) /\ s[langEnd] = NL
    THEN CodeBlockClosed(s, i, SubSeq(s, i + 3, langEnd - 1), langEnd + 1,
                         FenceClose(s, langEnd + 1))
    ELSE CodeBlockClosed(s, i, <<>>, i + 3, FenceClose(s, i + 3))

CodeBlockAt(s, i) ==
    IF ~HasPrefixAt(s, i, Fence) THEN NoMatch
    ELSE CodeBlockLang(s, i, ClassEnd(s, i + 3, IsLangCh))

\* leftmost match of the code block regexp at or after position from
CodeBlockFirst(s, hits) == IF hits = {} THEN NoMatch ELSE CodeBlockAt(s, Min(hits))

CodeBlockFrom(s, from) == CodeBlockFirst(s, {i \in from..Len(s) : CodeBlockAt(s, i).ok})

\* the anchored form ^...$ of processLines
CodeBlockAnchored(s, m) == IF m.ok /\ m.end = Len(s) + 1 THEN m ELSE NoMatch

CodeBlockWhole(s) == CodeBlockAnchored(s, CodeBlockAt(s, 1))

\* x{d}([^x]+?)x{d} (d = 1 or 2), leftmost match: the content is the whole run of
\* non-x characters after the opening delimiter
DelimAt(s, x, d, i) == i + d - 1 <= Len(s) /\ \A k \in 0..(d - 1) : s[i + k] = x

\* a closing test that takes the end of the line for a closing delimiter
DelimClosedAtEnd(s, x, d, i, j) == j > i + d

DelimClosed(s, x, d, i, j) == j > i + d /\ DelimAt(s, x, d, j)

DelimFound(s, d, i, j, patType) ==
    [ok |-> TRUE, start |-> i, end |-> j + d,
     content |-> SubSeq(s, i + d, j - 1), patType |-> patType, url |-> <<>>]

DelimFirst(s, x, d, hits, patType) ==
    IF hits = {} THEN NoMatch
    ELSE DelimFound(s, d, Min(hits), RunEnd(s, Min(hits) + d, x), patType)

DelimMatch(s, x, d, patType) ==
    DelimFirst(s, x, d,
               {i \in 1..Len(s) :
                   DelimAt(s, x, d, i) /\ DelimClosed(s, x, d, i, RunEnd(s, i + d, x))},
               patType)

\* \[([^\]]+)\]\(([^)]+)\), leftmost match
LinkUrlEnd(s, j) == RunEnd(s, j + 2, ChRPar)

LinkClosed(s, i, j) ==
    /\ j > i + 1
    /\ j + 1 <= Len(s)
    /\ s[j + 1] = ChLPar
    /\ LinkUrlEnd(s, j) > j + 2
    /\ LinkUrlEnd(s, j) <= Len(s)

LinkFound(s, i, j, k) ==
    [ok |-> TRUE, start |-> i, end |-> k + 1,
     content |-> SubSeq(s, i + 1, j - 1), patType |-> "text_link",
     url |-> SubSeq(s, j + 2, k - 1)]

LinkAt(s, i, j) == LinkFound(s, i, j, LinkUrlEnd(s, j))

LinkFirst(s, hits) ==
    IF hits = {} THEN NoMatch ELSE LinkAt(s, Min(hits), RunEnd(s, Min(hits) + 1, ChRBr))

LinkMatch(s) ==
    LinkFirst(s, {i \in 1..Len(s) :
                     s[i] = ChLBr /\ LinkClosed(s, i, RunEnd(s, i + 1, ChRBr))})

findNextPattern(s, pattern) ==
    CASE pattern = "boldStar" -> DelimMatch(s, ChStar, 2, "bold")
      [] pattern = "boldUnderscore" -> DelimMatch(s, ChUnderscore, 2, "bold")
      [] pattern = "italicStar" -> DelimMatch(s, ChStar, 1, "italic")
      [] pattern = "italicUnderscore" -> DelimMatch(s, ChUnderscore, 1, "italic")
      [] pattern = "code" -> DelimMatch(s, ChBacktick, 1, "code")
      [] pattern = "link" -> LinkMatch(s)
      [] pattern = "strike" -> DelimMatch(s, ChTilde, 2, "strikethrough")

\* the argument order of findEarliest in processInlineMarkdown
InlinePatterns ==
    <<"boldStar", "boldUnderscore", "italicStar", "italicUnderscore", "code", "link", "strike">>

RECURSIVE findEarliest(_, _)
findEarliest(patterns, earliest) ==
    IF patterns = <<>> THEN earliest
    ELSE LET pattern == Head(patterns)
         IN findEarliest(Tail(patterns),
                IF pattern.ok /\ (~earliest.ok \/ pattern.start < earliest.start)
                THEN pattern ELSE earliest)

(***************************************************************************)
(* The regex parser: telegramMarkdownParser.                               *)
(***************************************************************************)
NewParser == [output |-> <<>>, entities |-> <<>>, pos |-> 0]

Entity(t, offset, length, url, lang) ==
    [Type |-> t, Offset |-> offset, Length |-> length, URL |-> url, Language |-> lang]

\* p.output.WriteString(s); p.pos += utf8.RuneCountInString(s)
emit(ps, s) == [ps EXCEPT !.output = @ \o s, !.pos = @ + Len(s)]

addNewlineIfNeeded(ps) ==
    IF Len(ps.output) > 0 /\ ~HasSuffix(ps.output, <<NL>>) THEN emit(ps, <<NL>>) ELSE ps

addNewlineIfNotLast(ps, lineIndex, totalLines) ==
    IF lineIndex < totalLines - 1 THEN emit(ps, <<NL>>) ELSE ps

processPattern(ps, pattern) ==
    LET start == ps.pos
        length == Len(pattern.content)
    IN [emit(ps, pattern.content) EXCEPT
            !.entities = Append(@, Entity(pattern.patType, start, length, pattern.url, <<>>))]

RECURSIVE processInlineMarkdown(_, _)

\* the body of the loop of processInlineMarkdown once the earliest pattern is known
processEarliest(ps, remaining, earliest) ==
    IF ~earliest.ok THEN emit(ps, remaining)
    ELSE processInlineMarkdown(
            processPattern(
                IF earliest.start > 1
                THEN emit(ps, SubSeq(remaining, 1, earliest.start - 1))
                ELSE ps,
                earliest),
            From(remaining, earliest.end))

processInlineMarkdown(ps, remaining) ==
    IF Len(remaining) = 0 THEN ps
    ELSE processEarliest(ps, remaining,
            findEarliest([k \in 1..Len(InlinePatterns) |->
                             findNextPattern(remaining, InlinePatterns[k])], NoMatch))

\* the code block branch shared by processLines and handleCodeBlocksInText
writeCodeContent(ps, content, language) ==
    [emit(ps, content) EXCEPT
        !.entities = Append(@, Entity("pre", ps.pos, Len(content), <<>>, language))]

writeCodeBlock(ps, m) == writeCodeContent(ps, TrimSpace(m.content), m.url)

\* ReplaceAllStringFunc over the code block regexp: [ps, text], text with each
\* match replaced by the marker
RECURSIVE replaceCodeBlocks(_, _, _, _)

replaceMatch(ps, text, from, acc, m) ==
    IF ~m.ok THEN [ps |-> ps, text |-> acc \o From(text, from)]
    ELSE replaceCodeBlocks(writeCodeBlock(ps, m), text, m.end,
                           acc \o SubSeq(text, from, m.start - 1) \o Marker)

replaceCodeBlocks(ps, text, from, acc) ==
    replaceMatch(ps, text, from, acc, CodeBlockFrom(text, from))

removeMarkers(r) == [ps |-> r.ps, text |-> RemoveAll(r.text, Marker)]

handleCodeBlocksInText(ps, text) == removeMarkers(replaceCodeBlocks(ps, text, 1, <<>>))

\* \s+(.+)$ from position q of a line
TailFrom(line, q, wsEnd) ==
    IF wsEnd = q THEN [ok |-> FALSE, text |-> <<>>]
    ELSE IF wsEnd <= Len(line) THEN [ok |-> TRUE, text |-> From(line, wsEnd)]
    ELSE IF wsEnd - q >= 2 THEN [ok |-> TRUE, text |-> <<line[Len(line)]>>]
    ELSE [ok |-> FALSE, text |-> <<>>]

TailText(line, q) == TailFrom(line, q, ClassEnd(line, q, IsReSpace))

IsHash(ch) == ch = ChHash

\* ^(#{1,6})\s+(.+)$
headingTail(level, t) == [ok |-> level \in 1..6 /\ t.ok, level |-> level, text |-> t.text]

headingLevel(line, level) == headingTail(level, TailText(line, level + 1))

headingMatch(line) == headingLevel(line, ClassEnd(line, 1, IsHash) - 1)

\* ^[\s]*[-*+]\s+(.+)$
unorderedTail(line, lead, t) ==
    [ok |-> lead <= Len(line) /\ line[lead] \in {ChMinus, ChStar, ChPlus} /\ t.ok,
     text |-> t.text]

unorderedLead(line, lead) == unorderedTail(line, lead, TailText(line, lead + 1))

unorderedMatch(line) == unorderedLead(line, ClassEnd(line, 1, IsReSpace))

\* ^[\s]*\d+\.\s+(.+)$
orderedTail(line, lead, dEnd, t) ==
    [ok |-> dEnd > lead /\ dEnd <= Len(line) /\ line[dEnd] = ChDot /\ t.ok,
     text |-> t.text]

orderedDigits(line, lead, dEnd) == orderedTail(line, lead, dEnd, TailText(line, dEnd + 1))

orderedLead(line, lead) == orderedDigits(line, lead, ClassEnd(line, lead, IsDigit))

orderedMatch(line) == orderedLead(line, ClassEnd(line, 1, IsReSpace))

\* ^>\s*(.*)$
blockquoteMatch(line) ==
    [ok |-> Len(line) >= 1 /\ line[1] = ChGt,
     text |-> From(line, ClassEnd(line, 2, IsReSpace))]

\* handleHeading after addNewlineIfNeeded: the text, then bold (level 1) and underline
headingEntitiesAt(level, start, length) ==
    (IF level = 1 THEN <<Entity("bold", start, length, <<>>, <<>>)>> ELSE <<>>)
    \o <<Entity("underline", start, length, <<>>, <<>>)>>

writeHeading(p1, m) ==
    [emit(p1, m.text) EXCEPT
        !.entities = @ \o headingEntitiesAt(m.level, p1.pos, Len(m.text))]

handleHeading(ps, m, lineIndex, totalLines) ==
    addNewlineIfNotLast(writeHeading(addNewlineIfNeeded(ps), m), lineIndex, totalLines)

\* p.output.WriteString("• "); p.pos += 2
writeBullet(ps) == [ps EXCEPT !.output = @ \o <<ChBullet, SP>>, !.pos = @ + 2]

handleUnorderedList(ps, m, lineIndex, totalLines) ==
    addNewlineIfNotLast(
        processInlineMarkdown(writeBullet(addNewlineIfNeeded(ps)), m.text),
        lineIndex, totalLines)

handleOrderedList(ps, m, lineIndex, totalLines, listCounter) ==
    addNewlineIfNotLast(
        processInlineMarkdown(
            emit(writeBullet(addNewlineIfNeeded(ps)), <<Ch0 + listCounter, ChDot, SP>>),
            m.text),
        lineIndex, totalLines)

\* handleBlockquote after addNewlineIfNeeded: the quote is rendered by
\* processInlineMarkdown, the entity's length is the rune count of the source text
writeBlockquote(p1, quoteText) ==
    [processInlineMarkdown(p1, quoteText) EXCEPT
        !.entities = Append(@, Entity("blockquote", p1.pos, Len(quoteText), <<>>, <<>>))]

handleBlockquote(ps, m, lineIndex, totalLines) ==
    addNewlineIfNotLast(writeBlockquote(addNewlineIfNeeded(ps), m.text), lineIndex, totalLines)

regularLineEnd(p2, line, lineIndex, totalLines) ==
    IF lineIndex < totalLines - 1 /\ line # <<>> THEN emit(p2, <<NL>>) ELSE p2

regularLineText(p1, line) ==
    IF line # <<>> THEN processInlineMarkdown(p1, line) ELSE p1

handleRegularLine(ps, line, lineIndex, totalLines) ==
    regularLineEnd(
        regularLineText(
            IF Len(ps.output) > 0 /\ ~HasSuffix(ps.output, <<NL>>) /\ line # <<>>
            THEN emit(ps, <<NL>>) ELSE ps,
            line),
        line, lineIndex, totalLines)

\* one iteration of the loop of processLines over lines[i] (lineIndex = i - 1):
\* the parser and the loop's locals after it
lineHandlers(ps, lp, line, lineIndex, n, next, h, u, o, q, counter) ==
    IF TrimSpace(line) = <<>> /\ Contains(lp.text, Marker)
    THEN [ps |-> ps, lp |-> next]
    ELSE IF h.ok
    THEN [ps |-> handleHeading(ps, h, lineIndex, n), lp |-> next]
    ELSE IF u.ok
    THEN [ps |-> handleUnorderedList(ps, u, lineIndex, n),
          lp |-> [next EXCEPT !.inOrderedList = FALSE]]
    ELSE IF o.ok
    THEN [ps |-> handleOrderedList(ps, o, lineIndex, n, counter),
          lp |-> [next EXCEPT !.inOrderedList = TRUE, !.listCounter = counter + 1]]
    ELSE IF q.ok
    THEN [ps |-> handleBlockquote(ps, q, lineIndex, n),
          lp |-> [next EXCEPT !.inOrderedList = FALSE, !.listCounter = 1]]
    ELSE [ps |-> handleRegularLine(ps, line, lineIndex, n),
          lp |-> [next EXCEPT !.inOrderedList = FALSE, !.listCounter = 1]]

processLineAt(ps, lp, line) ==
    lineHandlers(ps, lp, line, lp.i - 1, Len(lp.lines), [lp EXCEPT !.i = @ + 1],
                 headingMatch(line), unorderedMatch(line), orderedMatch(line),
                 blockquoteMatch(line),
                 IF lp.inOrderedList THEN lp.listCounter ELSE 1)

processLine(ps, lp) == processLineAt(ps, lp, lp.lines[lp.i])

NoLoop == [text |-> <<>>, lines |-> <<>>, i |-> 1, listCounter |-> 1, inOrderedList |-> FALSE]

\* parse up to the loop of processLines: trim, the whole-text code block, the code
\* blocks in mixed content, the split into lines
splitLines(r) ==
    [ps |-> r.ps, lp |-> [NoLoop EXCEPT !.text = r.text, !.lines = SplitLines(r.text)]]

processLinesWhole(text, whole) ==
    IF whole.ok THEN [ps |-> writeCodeBlock(NewParser, whole), lp |-> NoLoop]
    ELSE splitLines(handleCodeBlocksInText(NewParser, text))

processLinesStart(text) ==
    IF text = <<>> THEN [ps |-> NewParser, lp |-> NoLoop]
    ELSE processLinesWhole(text, CodeBlockWhole(text))

(***************************************************************************)
(* Inputs of the tree converter: the documents md.Parse hands to Visit.    *)
(* A fenced code block's literal is its lines, each with its line end.     *)
(***************************************************************************)
MaxBlocks == 2
MaxItems == 2

TA == Text(<<ChA>>)
TE == Text(<<ChEmoji>>)

InlineSeqs ==
    { <<TA>>,
      <<TE, Strong(<<TA>>)>>,
      <<Emph(<<TE>>), TA>>,
      <<TE, Del(<<TA>>)>>,
      <<TE, Code(<<ChStar, ChB, ChStar>>)>>,
      <<TE, Link(<<ChU>>, <<TA>>), TA>>,
      <<Strong(<<TE, Emph(<<TA>>)>>)>>,
      <<TA, Link(<<ChU>>, <<Strong(<<TE>>), TA>>)>>,
      <<Text(<<ChA, CR, NL>>), TE>> }

HeadingSeqs == { <<TE>>, <<TA, Strong(<<TE>>)>> }

Items(n) == [i \in 1..n |-> ListItem(<<Paragraph(<<TA>>)>>)]

Blocks ==
    {Paragraph(s) : s \in InlineSeqs}
    \cup {Heading(l, s) : l \in {1, 2, 6}, s \in HeadingSeqs}
    \cup {CodeBlock(<<>>, <<ChB, NL>>),
          CodeBlock(<<ChU>>, <<ChEmoji, ChB, NL>>),
          CodeBlock(<<>>, <<NL, ChB, NL, NL>>)}
    \cup {List(FALSE, 0, Items(n)) : n \in 1..MaxItems}
    \cup {List(TRUE, st, Items(MaxItems)) : st \in {1, 9}}
    \cup {BlockQuote(<<Paragraph(<<TE, Strong(<<TA>>)>>)>>),
          BlockQuote(<<Paragraph(<<TA>>), List(FALSE, 0, Items(1))>>)}
    \cup {Table(<<TableHeader(<<TableRow(<<TableCell(<<TA>>),
                                            TableCell(<<TA, Strong(<<Text(<<ChB>>)>>)>>)>>)>>),
                  TableBody(<<TableRow(<<TableCell(<<Text(<<ChA, ChB, ChA>>)>>),
                                          TableCell(<<>>)>>)>>)>>)}

Docs == UNION {{Document(bs) : bs \in [1..n -> Blocks]} : n \in 0..MaxBlocks}

(***************************************************************************)
(* Parse of the tree converter: Visit(doc) walks the document's children   *)
(* in order (visitGeneric), then Result trims and returns.                 *)
(***************************************************************************)
NoResult == [text |-> <<>>, entities |-> <<>>]

RegexIdle ==
    /\ src = <<>>
    /\ p = NewParser
    /\ loop = NoLoop
    /\ rpc = "idle"
    /\ rres = NoResult

Init ==
    /\ doc \in Docs
    /\ c = NewConverter
    /\ idx = 1
    /\ pc = "visit"
    /\ res = NoResult
    /\ RegexIdle
    /\ ServiceIdle

VisitChild ==
    /\ pc = "visit"
    /\ idx <= Len(doc.children)
    /\ c' = Visit(c, doc.children[idx], idx > 1)
    /\ idx' = idx + 1
    /\ UNCHANGED <<doc, pc, res>>
    /\ UNCHANGED regexVars
    /\ UNCHANGED serviceVars

ParseResult ==
    /\ pc = "visit"
    /\ idx > Len(doc.children)
    /\ res' = Result(c)
    /\ pc' = "done"
    /\ UNCHANGED <<doc, c, idx>>
    /\ UNCHANGED regexVars
    /\ UNCHANGED serviceVars

\* md.Parse (or the walk) panics: Parse defers no recover, so the panic leaves Parse
\* and no result is returned
ParsePanic ==
    /\ pc = "visit"
    /\ idx = 1
    /\ pc' = "panic"
    /\ UNCHANGED <<doc, c, idx, res>>
    /\ UNCHANGED regexVars
    /\ UNCHANGED serviceVars

Next == VisitChild \/ ParseResult \/ ParsePanic

Spec == Init /\ [][Next]_vars

(***************************************************************************)
(* Inputs of the regex parser: markdown texts, chunks joined by newlines.  *)
(***************************************************************************)
MaxChunks == 2

Chunks ==
    { <<ChA>>,
      <<>>,
      <<SP, TAB>>,
      <<SP, ChA, NL, NL, ChB>>,
      <<ChUnderscore, ChA, SP, ChBacktick, ChB>>,
      <<ChLBr, ChA, ChRBr, ChLPar, ChU>>,
      <<ChEmoji, SP, ChStar, ChStar, ChA, ChStar, ChStar>>,
      <<ChStar, ChStar, ChA, SP, ChStar, ChB, ChStar, ChStar, ChStar>>,
      <<ChA, SP, ChStar, ChStar, ChB>>,
      <<ChUnderscore, ChA, ChUnderscore, SP, ChTilde, ChTilde, ChB, ChTilde, ChTilde>>,
      <<ChBacktick, ChStar, ChB, ChStar, ChBacktick>>,
      <<ChLBr, ChA, ChRBr, ChLPar, ChU, ChRPar>>,
      <<ChGt, SP, ChStar, ChStar, ChA, ChStar, ChStar>>,
      <<ChGt, SP, ChEmoji>>,
      <<ChHash, SP, ChEmoji, ChA>>,
      <<ChHash, ChHash, SP, ChA>>,
      <<ChMinus, SP, ChA>>,
      <<Ch0 + 1, ChDot, SP, ChA>>,
      <<ChBacktick, ChBacktick, ChBacktick, NL, ChB, NL, ChBacktick, ChBacktick, ChBacktick>>,
      <<NL, ChBacktick, ChBacktick, ChBacktick, ChU, NL, ChEmoji, NL,
        ChBacktick, ChBacktick, ChBacktick>> }

RECURSIVE JoinLines(_)
JoinLines(chunks) ==
    IF Len(chunks) = 0 THEN <<>>
    ELSE IF Len(chunks) = 1 THEN chunks[1]
    ELSE chunks[1] \o <<NL>> \o JoinLines(Tail(chunks))

Texts == UNION {{JoinLines(cs) : cs \in [1..n -> Chunks]} : n \in 0..MaxChunks}

(***************************************************************************)
(* parse of the regex parser, one step per line of processLines' loop.     *)
(***************************************************************************)
TreeIdle ==
    /\ doc = Document(<<>>)
    /\ c = NewConverter
    /\ idx = 1
    /\ pc = "idle"
    /\ res = NoResult

InitRegex ==
    /\ src \in Texts
    /\ p = NewParser
    /\ loop = NoLoop
    /\ rpc = "start"
    /\ rres = NoResult
    /\ TreeIdle
    /\ ServiceIdle

RegexStart ==
    /\ rpc = "start"
    /\ \E st \in {processLinesStart(TrimSpace(src))} : p' = st.ps /\ loop' = st.lp
    /\ rpc' = "lines"
    /\ UNCHANGED <<src, rres>>
    /\ UNCHANGED treeVars
    /\ UNCHANGED serviceVars

RegexLine ==
    /\ rpc = "lines"
    /\ loop.i <= Len(loop.lines)
    /\ \E st \in {processLine(p, loop)} : p' = st.ps /\ loop' = st.lp
    /\ UNCHANGED <<src, rpc, rres>>
    /\ UNCHANGED treeVars
    /\ UNCHANGED serviceVars

RegexResult ==
    /\ rpc = "lines"
    /\ loop.i > Len(loop.lines)
    /\ rres' = [text |-> TrimRightNL(p.output), entities |-> p.entities]
    /\ rpc' = "done"
    /\ UNCHANGED <<src, p, loop>>
    /\ UNCHANGED treeVars
    /\ UNCHANGED serviceVars

NextRegex == RegexStart \/ RegexLine \/ RegexResult

SpecRegex == InitRegex /\ [][NextRegex]_vars

(***************************************************************************)
(* The access provider: NewAccessProvider / CheckAccess of main.go and the *)
(* AccessProvider class of the JavaScript program.                         *)
(***************************************************************************)
\* strings.FieldsFunc(s, fieldFunc) and split(/[,;\s]+/).filter(Boolean): the maximal
\* runs of characters outside seps, from position i on, cur being the run so far
RECURSIVE FieldsFunc(_, _, _, _)
FieldsFunc(s, seps, i, cur) ==
    IF i > Len(s) THEN (IF cur = <<>> THEN <<>> ELSE <<cur>>)
    ELSE IF s[i] \in seps
         THEN (IF cur = <<>> THEN <<>> ELSE <<cur>>) \o FieldsFunc(s, seps, i + 1, <<>>)
    ELSE FieldsFunc(s, seps, i + 1, Append(cur, s[i]))

\* the value of a run of decimal digits
RECURSIVE DecimalValue(_)
DecimalValue(ds) ==
    IF ds = <<>> THEN 0
    ELSE DecimalValue(SubSeq(ds, 1, Len(ds) - 1)) * 10 + (ds[Len(ds)] - Ch0)

\* the digits strconv.ParseInt and parseInt read after an optional sign
Unsigned(e) == IF e # <<>> /\ e[1] \in {ChPlus, ChMinus} THEN Tail(e) ELSE e

Signed(e, v) == IF e # <<>> /\ e[1] = ChMinus THEN 0 - v ELSE v

\* strconv.ParseInt(username, 10, 64): the whole entry is a signed decimal (the
\* entries of the model stay far below the range of int64)
ParseInt(e) ==
    [ok |-> Unsigned(e) # <<>> /\ \A k \in 1..Len(Unsigned(e)) : IsDigit(Unsigned(e)[k]),
     val |-> Signed(e, DecimalValue(SelectSeq(Unsigned(e), IsDigit)))]

\* parseInt(entry, 10): the longest run of digits after leading white space and a sign
jsDigits(e) == SubSeq(Unsigned(e), 1, ClassEnd(Unsigned(e), 1, IsDigit) - 1)

jsParseInt(e) ==
    [ok |-> jsDigits(TrimLeftSpace(e)) # <<>>,
     val |-> Signed(TrimLeftSpace(e), DecimalValue(jsDigits(TrimLeftSpace(e))))]

\* strings.TrimPrefix(username, "@") and entry.replace(/^@/, '')
TrimPrefixAt(e) == IF e # <<>> /\ e[1] = ChAt THEN Tail(e) ELSE e

\* the ids and usernames filled from the entries, parsed[k] being the result of
\* the integer test on entry k
AccessProvider(entries, parsed) ==
    [ids |-> {parsed[k].val : k \in {j \in 1..Len(entries) : parsed[j].ok}},
     usernames |-> {TrimPrefixAt(entries[k]) :
                       k \in {j \in 1..Len(entries) : ~parsed[j].ok}}]

\* username = strings.TrimSpace(username) on every field
TrimFields(fields) == [k \in 1..Len(fields) |-> TrimSpace(fields[k])]

\* the loop of NewAccessProvider over the entries
goAccessProvider(entries) ==
    AccessProvider(entries, [k \in 1..Len(entries) |-> ParseInt(entries[k])])

NewAccessProvider(s) ==
    goAccessProvider(TrimFields(FieldsFunc(s, {ChComma, ChSemi, SP}, 1, <<>>)))

\* the loop of the JavaScript constructor over the entries
jsAccessProviderOf(entries) ==
    AccessProvider(entries, [k \in 1..Len(entries) |-> jsParseInt(entries[k])])

\* the constructor of the JavaScript AccessProvider
jsAccessProvider(s) ==
    jsAccessProviderOf(
        TrimFields(FieldsFunc(s, {ChComma, ChSemi, SP, TAB, NL, CR, FF, 11}, 1, <<>>)))

CheckAccess(provider, id, username) == id \in provider.ids \/ username \in provider.usernames

(***************************************************************************)
(* Inputs of the access provider: access strings made of entries joined by *)
(* a separator, and the id and username asked for.                         *)
(***************************************************************************)
MaxEntries == 2

AccessEntries ==
    { <<Ch0 + 1>>,
      <<Ch0 + 1, Ch0 + 2>>,
      <<Ch0 + 1, ChA>>,
      <<ChAt, ChA>>,
      <<ChAt, Ch0 + 2>> }

Separators == { <<ChComma>>, <<ChSemi>>, <<SP>>, <<ChComma, SP>> }

RECURSIVE JoinWith(_, _)
JoinWith(es, sep) ==
    IF Len(es) = 0 THEN <<>>
    ELSE IF Len(es) = 1 THEN es[1]
    ELSE es[1] \o sep \o JoinWith(Tail(es), sep)

EntryLists == UNION {[1..n -> AccessEntries] : n \in 0..MaxEntries}

QueryIds == {1, 2, 12}

QueryNames == { <<>>, <<ChA>>, <<ChB>>, <<Ch0 + 2>>, <<Ch0 + 1, ChA>> }

InitAccess ==
    /\ \E impl \in {"go", "js"}, es \in EntryLists, sep \in Separators,
          id \in QueryIds, username \in QueryNames :
          ap = [impl |-> impl, entries |-> es, s |-> JoinWith(es, sep),
                id |-> id, username |-> username, pc |-> "new",
                provider |-> [ids |-> {}, usernames |-> {}], granted |-> FALSE]
    /\ StorageIdle /\ ReplyIdle /\ JsIdle
    /\ TreeIdle
    /\ RegexIdle

\* accessProvider := NewAccessProvider(os.Getenv("TELEGRAM_BOT_ACCESS")) and
\* new AccessProvider(process.env.TELEGRAM_BOT_ACCESS)
AccessNew ==
    /\ ap.pc = "new"
    /\ ap' = [ap EXCEPT !.pc = "check",
                        !.provider = IF ap.impl = "go" THEN NewAccessProvider(ap.s)
                                     ELSE jsAccessProvider(ap.s)]
    /\ UNCHANGED <<file, mutex, tg, rp, js>>
    /\ UNCHANGED treeVars
    /\ UNCHANGED regexVars

\* the call CheckAccess(id, username) of hasAccess
AccessCheck ==
    /\ ap.pc = "check"
    /\ ap' = [ap EXCEPT !.pc = "done",
                        !.granted = CheckAccess(ap.provider, ap.id, ap.username)]
    /\ UNCHANGED <<file, mutex, tg, rp, js>>
    /\ UNCHANGED treeVars
    /\ UNCHANGED regexVars

NextAccess == AccessNew \/ AccessCheck

SpecAccess == InitAccess /\ [][NextAccess]_vars

(***************************************************************************)
(* The conversation storage (storage.go): a conversation maps message ids  *)
(* to messages; ReplyTo is <<>> for nil and <<id>> for a pointer to id.    *)
(***************************************************************************)
MessageYAML(replyTo, side, text) == [ReplyTo |-> replyTo, Side |-> side, Text |-> text]

Message(msg) == [Side |-> msg.Side, Text |-> msg.Text]

\* MessageChain.Store up to c.save(): c.conversation.Messages[msgID] = &msg
Store(conversation, msgID, replyToID, side, text) ==
    [i \in DOMAIN conversation \cup {msgID} |->
        IF i = msgID THEN MessageYAML(replyToID, side, text) ELSE conversation[i]]

\* the loop of MessageChain.Read: messages appended from messageID towards the root
RECURSIVE ReadLoop(_, _, _)
ReadLoop(conversation, messageID, messages) ==
    IF messageID \notin DOMAIN conversation THEN messages
    ELSE IF conversation[messageID].ReplyTo = <<>>
         THEN Append(messages, Message(conversation[messageID]))
    ELSE ReadLoop(conversation, conversation[messageID].ReplyTo[1],
                  Append(messages, Message(conversation[messageID])))

\* the loop of Read leaves within n further iterations
RECURSIVE ReadEndsIn(_, _, _)
ReadEndsIn(conversation, messageID, n) ==
    \/ messageID \notin DOMAIN conversation
    \/ conversation[messageID].ReplyTo = <<>>
    \/ n > 0 /\ ReadEndsIn(conversation, conversation[messageID].ReplyTo[1], n - 1)

\* the loop of Read leaves at all: a walk longer than the map revisits a message
ReadEnds(conversation, messageID) ==
    ReadEndsIn(conversation, messageID, Cardinality(DOMAIN conversation))

\* slices.Reverse(messages)
Reverse(s) == [k \in 1..Len(s) |-> s[Len(s) + 1 - k]]

\* a Read that returns the messages in the order the loop met them
ReadNewestFirst(conversation, messageID) == ReadLoop(conversation, messageID, <<>>)

Read(conversation, messageID) == Reverse(ReadLoop(conversation, messageID, <<>>))

\* MessageChain.read of the JavaScript storage: the loop of Read, leaving it on a
\* falsy reply_to (none, or the id 0)
RECURSIVE jsReadLoop(_, _, _)
jsReadLoop(conversation, currentID, messages) ==
    IF currentID \notin DOMAIN conversation THEN messages
    ELSE IF conversation[currentID].ReplyTo = <<>> \/ conversation[currentID].ReplyTo[1] = 0
         THEN Append(messages, Message(conversation[currentID]))
    ELSE jsReadLoop(conversation, conversation[currentID].ReplyTo[1],
                    Append(messages, Message(conversation[currentID])))

jsRead(conversation, messageID) == Reverse(jsReadLoop(conversation, messageID, <<>>))

(***************************************************************************)
(* The bot (telegram.go): every update is handled in a goroutine of its    *)
(* own (Telegram.Run); a goroutine's record holds the message, the locals  *)
(* of generate / Storage.do / generateE and a log of what it sent, asked   *)
(* and stored, in order.                                                   *)
(***************************************************************************)
MaxMessageID == 2

Goroutines == {1, 2}

Owner == [ID |-> 1, UserName |-> <<ChA>>]

Stranger == [ID |-> 2, UserName |-> <<ChB>>]

\* t.botInfo, the result of GetMe
botInfo == [ID |-> 3, UserName |-> <<ChU>>]

\* the AccessChecker of the configuration: TELEGRAM_BOT_ACCESS names the owner's id
accessChecker == NewAccessProvider(<<Ch0 + 1>>)

UserIds == {Owner.ID, Stranger.ID, botInfo.ID}

\* tgbotapi.Message as handleUpdate and generate read it
Update(from, id, replyTo, command, text, photo, caption, album) ==
    [From |-> from, MessageID |-> id, ReplyToMessage |-> replyTo, Command |-> command,
     Text |-> text, Photo |-> photo, Caption |-> caption, MediaGroupID |-> album]

NoUpdate == Update(Stranger, 0, <<>>, "", <<>>, FALSE, <<>>, <<>>)

\* the updates of the model: from either sender a /start command, a text, a blank
\* text, a photo without caption in an album and outside one, a captioned photo, a
\* sticker; from the owner also texts with every message id, replying to nothing or
\* to any other message id (the ids are those of the update: the code compares
\* them with nothing)
Updates ==
    UNION {{ Update(from, 1, <<>>, "start", <<47, 115>>, FALSE, <<>>, <<>>),
             Update(from, 1, <<>>, "", <<ChA>>, FALSE, <<>>, <<>>),
             Update(from, 1, <<>>, "", <<SP>>, FALSE, <<>>, <<>>),
             Update(from, 1, <<>>, "", <<>>, TRUE, <<>>, <<ChA>>),
             Update(from, 1, <<>>, "", <<>>, TRUE, <<>>, <<>>),
             Update(from, 1, <<>>, "", <<>>, TRUE, <<ChA>>, <<>>),
             Update(from, 1, <<>>, "", <<>>, FALSE, <<>>, <<>>) } : from \in {Owner, Stranger}}
    \cup UNION {{ Update(Owner, id, replyTo, "", <<ChA>>, FALSE, <<>>, <<>>) :
                     replyTo \in {<<>>} \cup {<<r>> : r \in (1..MaxMessageID) \ {id}} } :
                 id \in 1..MaxMessageID}

\* the text gpt.Generate answers with
Response == <<ChB>>

Goroutine(position, msg, request, log) ==
    [pc |-> position, msg |-> msg, request |-> request, log |-> log,
     root |-> <<>>, storedMessages |-> <<>>, gptMessages |-> <<>>, reply |-> 0,
     err |-> FALSE]

\* a hasAccess that lets every sender in
hasAccessAnyone(msg) == msg.From = msg.From

hasAccess(msg) ==
    \/ msg.From.ID = botInfo.ID
    \/ CheckAccess(accessChecker, msg.From.ID, msg.From.UserName)

onStartCommand(msg) ==
    IF hasAccess(msg) THEN Goroutine("done", msg, <<>>, <<"welcome">>)
    ELSE Goroutine("done", msg, <<>>, <<"denied">>)

\* generate up to the call of t.storage.TX, text being text or, if empty, altText
generateText(msg, text) ==
    IF ~hasAccess(msg) THEN Goroutine("done", msg, <<>>, <<"denied">>)
    ELSE IF text = <<>> /\ msg.MediaGroupID # <<>> THEN Goroutine("done", msg, <<>>, <<>>)
    ELSE IF text = <<>> THEN Goroutine("done", msg, <<>>, <<"missing">>)
    ELSE Goroutine("tx", msg, text, <<>>)

generate(msg, text, altText) == generateText(msg, IF text = <<>> THEN altText ELSE text)

handleUpdate(msg) ==
    IF msg.Command = "start" THEN onStartCommand(msg)
    ELSE IF msg.Text # <<>> THEN generate(msg, msg.Text, <<>>)
    ELSE IF msg.Photo THEN generate(msg, msg.Caption, msg.Caption)
    ELSE Goroutine("done", msg, <<>>, <<>>)

normalizeText(text) ==
    IF TrimSpace(text) = <<>> THEN <<>>
    ELSE IF HasSuffix(TrimSpace(text), <<ChDot>>) THEN TrimSpace(text)
    ELSE TrimSpace(text) \o <<ChDot>>

\* the gpt.Message list generateGPTMessages builds from the stored messages
GPTMessages(storedMessages, text) ==
    [k \in 1..Len(storedMessages) |->
        [Participant |-> IF storedMessages[k].Side = "bot" THEN "bot" ELSE "user",
         Text |-> storedMessages[k].Text]]
    \o <<[Participant |-> "user", Text |-> text]>>

\* msgID of generateGPTMessages and replyToID of generateE
ReplyToID(msg) == IF msg.ReplyToMessage = <<>> THEN 0 ELSE msg.ReplyToMessage[1]

\* a step of a goroutine returning err from the callback of TX
Failed(g, what) == [g EXCEPT !.pc = "unlock", !.err = TRUE, !.log = Append(@, what)]

InitBot ==
    /\ file = [u \in UserIds |-> <<>>]
    /\ mutex = 0
    /\ tg = [h \in Goroutines |-> Goroutine("idle", NoUpdate, <<>>, <<>>)]
    /\ AccessIdle /\ ReplyIdle /\ JsIdle
    /\ TreeIdle
    /\ RegexIdle

\* go t.handleUpdate(update): handleUpdate, hasAccess and generate up to t.storage.TX
HandleUpdate(h) ==
    /\ tg[h].pc = "idle"
    /\ \E msg \in Updates : tg' = [tg EXCEPT ![h] = handleUpdate(msg)]
    /\ UNCHANGED <<file, mutex>>

\* a mutex whose Lock never waits
mutexNeverLocked(m) == m # m

\* s.mutex.Lock() in Storage.do waits while the mutex is held
mutexLocked(m) == m # 0

TXLock(h) ==
    /\ tg[h].pc = "tx"
    /\ ~mutexLocked(mutex)
    /\ mutex' = h
    /\ tg' = [tg EXCEPT ![h].pc = "load"]
    /\ UNCHANGED file

\* root, err := s.load(), then the conversation of the user in Storage.TX
TXLoad(h) ==
    /\ tg[h].pc = "load"
    /\ \/ tg' = [tg EXCEPT ![h].pc = "messages", ![h].root = file]
       \/ tg' = [tg EXCEPT ![h] = Failed(@, "load failed")]
    /\ UNCHANGED <<file, mutex>>

\* generateGPTMessages: normalizeText, chain.Read(msgID), the gpt messages; a Read
\* whose loop never leaves keeps the goroutine in it
GenerateGPTMessages(h) ==
    /\ tg[h].pc = "messages"
    /\ \E g \in {tg[h]}, conversation \in {tg[h].root[tg[h].msg.From.ID]} :
          tg' = [tg EXCEPT ![h] =
                    IF normalizeText(g.request) = <<>> THEN Failed(g, "text is empty")
                    ELSE IF ~ReadEnds(conversation, ReplyToID(g.msg))
                         THEN [g EXCEPT !.pc = "reading"]
                    ELSE [g EXCEPT !.pc = "thinking",
                                   !.storedMessages = Read(conversation, ReplyToID(g.msg)),
                                   !.gptMessages =
                                       GPTMessages(Read(conversation, ReplyToID(g.msg)),
                                                   normalizeText(g.request))]]
    /\ UNCHANGED <<file, mutex>>

\* thinkingResponse, err := t.bot.Send(thinkingMsg)
SendThinking(h) ==
    /\ tg[h].pc = "thinking"
    /\ \/ tg' = [tg EXCEPT ![h].pc = "gpt", ![h].log = Append(@, "thinking")]
       \/ tg' = [tg EXCEPT ![h] = Failed(@, "thinking failed")]
    /\ UNCHANGED <<file, mutex>>

\* response, err := t.gpt.Generate(gptMessages)
Generate(h) ==
    /\ tg[h].pc = "gpt"
    /\ \/ tg' = [tg EXCEPT ![h].pc = "reply", ![h].log = Append(@, "gpt")]
       \/ tg' = [tg EXCEPT ![h] = Failed(@, "gpt failed")]
    /\ UNCHANGED <<file, mutex>>

\* replyMsg, err := t.reply(msg, &thinkingResponse, response): Telegram gives the
\* reply a message id other than the id of the message replied to
Reply(h) ==
    /\ tg[h].pc = "reply"
    /\ \/ \E id \in (1..MaxMessageID) \ {tg[h].msg.MessageID} :
             tg' = [tg EXCEPT ![h].pc = "storeUser", ![h].reply = id,
                              ![h].log = Append(@, "reply")]
       \/ tg' = [tg EXCEPT ![h] = Failed(@, "reply failed")]
    /\ UNCHANGED <<file, mutex>>

\* chain.Store on the conversation of root, c.save() writing root to the file
StoreAndSave(h, next, msgID, replyToID, side, text, what) ==
    /\ \/ /\ tg' = [tg EXCEPT ![h].pc = next,
                              ![h].root[tg[h].msg.From.ID] =
                                  Store(@, msgID, replyToID, side, text),
                              ![h].log = Append(@, what)]
          /\ file' = [tg[h].root EXCEPT ![tg[h].msg.From.ID] =
                                            Store(@, msgID, replyToID, side, text)]
       \/ /\ tg' = [tg EXCEPT ![h] = Failed(@, "save failed")]
          /\ UNCHANGED file
    /\ UNCHANGED mutex

\* chain.Store(msg.MessageID, replyToID, storage.MessageSideUser, request)
StoreUser(h) ==
    /\ tg[h].pc = "storeUser"
    /\ StoreAndSave(h, "storeBot", tg[h].msg.MessageID, tg[h].msg.ReplyToMessage,
                    "user", tg[h].request, "store user")

\* chain.Store(replyMsg.MessageID, &msg.MessageID, storage.MessageSideBot, response)
StoreBot(h) ==
    /\ tg[h].pc = "storeBot"
    /\ StoreAndSave(h, "unlock", tg[h].reply, <<tg[h].msg.MessageID>>,
                    "bot", Response, "store bot")

\* defer s.mutex.Unlock() as Storage.do returns, then err != nil in generate
TXUnlock(h) ==
    /\ tg[h].pc = "unlock"
    /\ mutex' = 0
    /\ tg' = [tg EXCEPT ![h].pc = IF tg[h].err THEN "failure" ELSE "done"]
    /\ UNCHANGED file

\* the failure message of generate (an error of this send is only logged)
SendFailure(h) ==
    /\ tg[h].pc = "failure"
    /\ tg' = [tg EXCEPT ![h].pc = "done", ![h].log = Append(@, "failure")]
    /\ UNCHANGED <<file, mutex>>

NextBot ==
    /\ \E h \in Goroutines :
          \/ HandleUpdate(h)
          \/ TXLock(h)
          \/ TXLoad(h)
          \/ GenerateGPTMessages(h)
          \/ SendThinking(h)
          \/ Generate(h)
          \/ Reply(h)
          \/ StoreUser(h)
          \/ StoreBot(h)
          \/ TXUnlock(h)
          \/ SendFailure(h)
    /\ UNCHANGED <<ap, rp, js>>
    /\ UNCHANGED treeVars
    /\ UNCHANGED regexVars

SpecBot == InitBot /\ [][NextBot]_vars

(***************************************************************************)
(* The telebot version of the bot (part_007) on the storage that keeps one *)
(* list of messages per user (storage.go, second version): generate, TX    *)
(* and the first steps of generateE are those of telegram.go; the chain is *)
(* read and stored as a whole list, reply returns no message, and          *)
(* generateE ends with a second call of reply.                             *)
(***************************************************************************)
\* c.chain.Messages = append(c.chain.Messages, &msg)
telebotStore(chain, side, text) == Append(chain, [Side |-> side, Text |-> text])

\* MessageChain.Read(): every message of the chain in stored order
telebotRead(chain) == [k \in 1..Len(chain) |-> [Side |-> chain[k].Side, Text |-> chain[k].Text]]

telebotGenerateGPTMessages(h) ==
    /\ tg[h].pc = "messages"
    /\ \E g \in {tg[h]}, chain \in {tg[h].root[tg[h].msg.From.ID]} :
          tg' = [tg EXCEPT ![h] =
                    IF normalizeText(g.request) = <<>> THEN Failed(g, "text is empty")
                    ELSE [g EXCEPT !.pc = "thinking",
                                   !.storedMessages = telebotRead(chain),
                                   !.gptMessages = GPTMessages(telebotRead(chain),
                                                               normalizeText(g.request))]]
    /\ UNCHANGED <<file, mutex>>

\* err = tg.reply(msg, reply, response), or return tg.reply(msg, reply, response)
telebotReply(h, position, next) ==
    /\ tg[h].pc = position
    /\ \/ tg' = [tg EXCEPT ![h].pc = next, ![h].log = Append(@, "reply")]
       \/ tg' = [tg EXCEPT ![h] = Failed(@, "reply failed")]
    /\ UNCHANGED <<file, mutex>>

telebotStoreAndSave(h, position, next, side, text, what) ==
    /\ tg[h].pc = position
    /\ \/ /\ tg' = [tg EXCEPT ![h].pc = next,
                              ![h].root[tg[h].msg.From.ID] = telebotStore(@, side, text),
                              ![h].log = Append(@, what)]
          /\ file' = [tg[h].root EXCEPT ![tg[h].msg.From.ID] = telebotStore(@, side, text)]
       \/ /\ tg' = [tg EXCEPT ![h] = Failed(@, "save failed")]
          /\ UNCHANGED file
    /\ UNCHANGED mutex

telebotFirstReply(h) == telebotReply(h, "reply", "storeUser")

\* chain.Store(storage.User, request)
telebotStoreUser(h) ==
    telebotStoreAndSave(h, "storeUser", "storeBot", "user", tg[h].request, "store user")

\* chain.Store(storage.Bot, response)
telebotStoreBot(h) ==
    telebotStoreAndSave(h, "storeBot", "replyAgain", "bot", Response, "store bot")

telebotSecondReply(h) == telebotReply(h, "replyAgain", "unlock")

NextTelebot ==
    /\ \E h \in Goroutines :
          \/ HandleUpdate(h)
          \/ TXLock(h)
          \/ TXLoad(h)
          \/ telebotGenerateGPTMessages(h)
          \/ SendThinking(h)
          \/ Generate(h)
          \/ telebotFirstReply(h)
          \/ telebotStoreUser(h)
          \/ telebotStoreBot(h)
          \/ telebotSecondReply(h)
          \/ TXUnlock(h)
          \/ SendFailure(h)
    /\ UNCHANGED <<ap, rp, js>>
    /\ UNCHANGED treeVars
    /\ UNCHANGED regexVars

SpecTelebot == InitBot /\ [][NextTelebot]_vars

(***************************************************************************)
(* Telegram.reply: the converted response is sent as one message or, when  *)
(* it is too long, in chunks.  telegram.go measures and cuts the text in   *)
(* runes, the telebot version (config.go) in bytes of its UTF-8 encoding;  *)
(* the text of a chunk is what its bytes decode to.  MaxTextLength stands  *)
(* for the 4095 of the code.                                               *)
(***************************************************************************)
MaxTextLength == 3

MaxReplyLength == 5

RuneError == 65533

\* the UTF-8 encoding of a rune
utf8(ch) ==
    IF ch < 128 THEN <<ch>>
    ELSE IF ch < 2048 THEN <<192 + (ch \div 64), 128 + (ch % 64)>>
    ELSE IF ch <= MaxBMP
         THEN <<224 + (ch \div 4096), 128 + ((ch \div 64) % 64), 128 + (ch % 64)>>
    ELSE <<240 + (ch \div 262144), 128 + ((ch \div 4096) % 64),
           128 + ((ch \div 64) % 64), 128 + (ch % 64)>>

\* the bytes of a Go string
RECURSIVE Bytes(_)
Bytes(s) == IF s = <<>> THEN <<>> ELSE utf8(Head(s)) \o Bytes(Tail(s))

\* the length of the encoding a first byte announces, 0 for a byte that starts none
RuneSize(b) ==
    IF b < 128 THEN 1
    ELSE IF b >= 192 /\ b < 224 THEN 2
    ELSE IF b >= 224 /\ b < 240 THEN 3
    ELSE IF b >= 240 /\ b < 248 THEN 4
    ELSE 0

\* the rune of a well-formed encoding of n bytes
RuneValue(b, n) ==
    IF n = 1 THEN b[1]
    ELSE IF n = 2 THEN (b[1] - 192) * 64 + (b[2] - 128)
    ELSE IF n = 3 THEN (b[1] - 224) * 4096 + (b[2] - 128) * 64 + (b[3] - 128)
    ELSE (b[1] - 240) * 262144 + (b[2] - 128) * 4096 + (b[3] - 128) * 64 + (b[4] - 128)

\* utf8.DecodeRune with the size n announced by the first byte: (RuneError, 1) for
\* an encoding that is cut short or broken
DecodeRune(b, n) ==
    IF n = 0 \/ Len(b) < n \/ \E k \in 2..n : k <= Len(b) /\ (b[k] < 128 \/ b[k] >= 192)
    THEN [rune |-> RuneError, size |-> 1]
    ELSE [rune |-> RuneValue(b, n), size |-> n]

\* the characters of a byte string, every byte outside a well-formed encoding read
\* as U+FFFD
RECURSIVE Runes(_)
Runes(b) ==
    IF b = <<>> THEN <<>>
    ELSE <<DecodeRune(b, RuneSize(b[1])).rune>>
         \o Runes(SubSeq(b, DecodeRune(b, RuneSize(b[1])).size + 1, Len(b)))

\* the converted responses of the model: texts of "a" and of the three-byte bullet
ReplyTexts == UNION {[1..n -> {ChA, ChBullet}] : n \in 0..MaxReplyLength}

\* []rune(parsedResponse) in telegram.go, the string itself in config.go
ReplyUnits(impl, text) == IF impl = "runes" THEN text ELSE Bytes(text)

\* the text of the message a chunk is sent as
ChunkText(impl, chunk) == IF impl = "runes" THEN chunk ELSE Runes(chunk)

InitReply ==
    /\ \E impl \in {"runes", "bytes"}, text \in ReplyTexts :
          rp = [impl |-> impl, text |-> text, pc |-> "reply", remaining |-> <<>>,
                sent |-> <<>>, returned |-> 0]
    /\ AccessIdle /\ StorageIdle /\ JsIdle
    /\ TreeIdle
    /\ RegexIdle

\* a text within MaxTextLength is sent as one message, a longer one enters the loop
ReplyWhole ==
    /\ rp.pc = "reply"
    /\ IF Len(ReplyUnits(rp.impl, rp.text)) <= MaxTextLength
       THEN \/ rp' = [rp EXCEPT !.pc = "done", !.sent = <<rp.text>>, !.returned = 1]
            \/ rp' = [rp EXCEPT !.pc = "failed"]
       ELSE rp' = [rp EXCEPT !.pc = "loop", !.remaining = ReplyUnits(rp.impl, rp.text)]

\* one iteration of the loop: the next chunk is cut off and sent
ReplyChunk ==
    /\ rp.pc = "loop"
    /\ Len(rp.remaining) > 0
    /\ \E n \in {IF Len(rp.remaining) <= MaxTextLength THEN Len(rp.remaining)
                 ELSE MaxTextLength} :
          \/ rp' = [rp EXCEPT !.remaining = SubSeq(@, n + 1, Len(@)),
                              !.sent = Append(@, ChunkText(rp.impl,
                                                           SubSeq(rp.remaining, 1, n)))]
          \/ rp' = [rp EXCEPT !.pc = "failed"]

\* return lastReply, nil: the message of the last send
ReplyReturn ==
    /\ rp.pc = "loop"
    /\ Len(rp.remaining) = 0
    /\ rp' = [rp EXCEPT !.pc = "done", !.returned = Len(rp.sent)]

NextReply ==
    /\ ReplyWhole \/ ReplyChunk \/ ReplyReturn
    /\ UNCHANGED <<ap, file, mutex, tg, js>>
    /\ UNCHANGED treeVars
    /\ UNCHANGED regexVars

SpecReply == InitReply /\ [][NextReply]_vars

(***************************************************************************)
(* The JavaScript storage (part_015): Storage.do chains its callback onto  *)
(* the promise in this.mutex and puts the promise that then() returns in   *)
(* its place.  A call is a record of its promise's state, of the call      *)
(* whose error it was rejected with, of how its callback ran ("" if it did  *)
(* not) and on which data; the file holds the numbers of the calls that    *)
(* stored.                                                                 *)
(***************************************************************************)
MaxCalls == 5

\* what a callback that runs does: load, fn and save succeed; load throws; fn
\* throws; save throws
Outcomes == {"stored", "load failed", "fn failed", "save failed"}

\* the promise a callback is chained onto: Promise.resolve() of the constructor for
\* the first call, the promise of the call before for the others
jsMutex(calls, k) == IF k = 1 THEN [state |-> "fulfilled", error |-> 0] ELSE calls[k - 1]

\* promise.then(onFulfilled): on a fulfilled promise the callback runs and its
\* outcome settles the new promise; a rejected promise rejects the new one with
\* its own error and the callback is not called
jsThen(promise, k, outcome, data) ==
    IF promise.state = "rejected"
    THEN [state |-> "rejected", error |-> promise.error, ran |-> "", root |-> <<>>]
    ELSE [state |-> IF outcome = "stored" THEN "fulfilled" ELSE "rejected",
          error |-> IF outcome = "stored" THEN 0 ELSE k,
          ran |-> outcome,
          root |-> IF outcome = "load failed" THEN <<>> ELSE data]

InitJs ==
    /\ js = [calls |-> <<>>, file |-> <<>>]
    /\ AccessIdle /\ StorageIdle /\ ReplyIdle
    /\ TreeIdle
    /\ RegexIdle

\* Storage.do(fn) or Storage.tx(userID, fn): this.mutex = this.mutex.then(...)
JsDo ==
    /\ Len(js.calls) < MaxCalls
    /\ js' = [js EXCEPT !.calls = Append(@, [state |-> "pending", error |-> 0,
                                             ran |-> "", root |-> <<>>])]

\* the promise of the oldest pending call settles: its callback runs on the file
\* as it is now, or is skipped
JsSettle ==
    \E k \in 1..Len(js.calls), outcome \in Outcomes :
        /\ js.calls[k].state = "pending"
        /\ jsMutex(js.calls, k).state # "pending"
        /\ js' = [js EXCEPT
                     !.calls[k] = jsThen(jsMutex(js.calls, k), k, outcome, js.file),
                     !.file = IF jsMutex(js.calls, k).state = "fulfilled"
                                 /\ outcome = "stored"
                              THEN Append(@, k) ELSE @]

NextJs ==
    /\ JsDo \/ JsSettle
    /\ UNCHANGED <<ap, file, mutex, tg, rp>>
    /\ UNCHANGED treeVars
    /\ UNCHANGED regexVars

SpecJs == InitJs /\ [][NextJs]_vars

(***************************************************************************)
(* The inline passes of the JavaScript parser (part_014): one global pass  *)
(* over this.output per pattern, each pass writing the output again        *)
(* without its delimiters and adding its entities to those of the passes   *)
(* before, which keep the offsets they were given.                         *)
(***************************************************************************)
\* the patterns of handleInlineElements, in its order
JsInlinePatterns == <<"boldStar", "italicStar", "italicUnderscore", "strike", "code", "link">>

\* the loop of processInlinePattern and processLinkPattern: rest is the output from
\* lastIndex on, m the next match in it
RECURSIVE jsInlinePass(_, _, _, _)
jsInlineMatch(rest, pattern, result, entities, m) ==
    IF ~m.ok THEN [output |-> result \o rest, entities |-> entities]
    ELSE jsInlinePass(SubSeq(rest, m.end, Len(rest)), pattern,
                      result \o SubSeq(rest, 1, m.start - 1) \o m.content,
                      Append(entities,
                             Entity(m.patType,
                                    utf16Len(result \o SubSeq(rest, 1, m.start - 1)),
                                    utf16Len(m.content), m.url, <<>>)))

jsInlinePass(rest, pattern, result, entities) ==
    jsInlineMatch(rest, pattern, result, entities, findNextPattern(rest, pattern))

\* if (newEntities.length > 0) { this.output = result; this.entities.push(...) }
jsInlineApply(ps, pass) ==
    IF pass.entities = <<>> THEN ps
    ELSE [ps EXCEPT !.output = pass.output, !.entities = @ \o pass.entities]

processInlinePattern(ps, pattern) ==
    jsInlineApply(ps, jsInlinePass(ps.output, pattern, <<>>, <<>>))

RECURSIVE jsInlinePasses(_, _)
jsInlinePasses(ps, patterns) ==
    IF patterns = <<>> THEN ps
    ELSE jsInlinePasses(processInlinePattern(ps, Head(patterns)), Tail(patterns))

handleInlineElements(ps) == jsInlinePasses(ps, JsInlinePatterns)

\* the parser holds an output of plain lines and no entity yet
InitJsInline ==
    /\ src \in Texts
    /\ p = [NewParser EXCEPT !.output = src]
    /\ loop = NoLoop
    /\ rpc = "inline"
    /\ rres = NoResult
    /\ TreeIdle
    /\ ServiceIdle

HandleInlineElements ==
    /\ rpc = "inline"
    /\ p' = handleInlineElements(p)
    /\ rpc' = "inlined"
    /\ UNCHANGED <<src, loop, rres>>
    /\ UNCHANGED treeVars
    /\ UNCHANGED serviceVars

\* return [this.output.replace(/\n+$/, ''), this.entities]
JsParseResult ==
    /\ rpc = "inlined"
    /\ rres' = [text |-> TrimRightNL(p.output), entities |-> p.entities]
    /\ rpc' = "done"
    /\ UNCHANGED <<src, p, loop>>
    /\ UNCHANGED treeVars
    /\ UNCHANGED serviceVars

NextJsInline == HandleInlineElements \/ JsParseResult

SpecJsInline == InitJsInline /\ [][NextJsInline]_vars

(***************************************************************************)
(* Reference definitions for the properties: the UTF-16 encoding of a text *)
(* and the spans a tree's inline nodes are expected to carry.              *)
(***************************************************************************)
RECURSIVE Utf16Units(_)
Utf16Units(s) ==
    IF s = <<>> THEN <<>>
    ELSE (IF Head(s) <= 65535 THEN <<Head(s)>>
          ELSE <<55296 + ((Head(s) - 65536) \div 1024), 56320 + ((Head(s) - 65536) % 1024)>>)
         \o Utf16Units(Tail(s))

Units(s) == Len(Utf16Units(s))

\* the text of a subtree: its leaves' literals in document order
RECURSIVE FlatText(_)
RECURSIVE FlatSeq(_, _)
FlatText(node) ==
    IF IsLeaf(node) THEN ReplaceCRLF(node.literal) ELSE FlatSeq(node.children, 1)

FlatSeq(ch, i) == IF i > Len(ch) THEN <<>> ELSE FlatText(ch[i]) \o FlatSeq(ch, i + 1)

SpanKind(node) ==
    CASE node.type = "Strong" -> "bold"
      [] node.type = "Emph" -> "italic"
      [] node.type = "Del" -> "strikethrough"
      [] node.type = "Code" -> "code"
      [] node.type = "Link" -> "text_link"
      [] OTHER -> ""

OwnSpan(node, off) ==
    IF SpanKind(node) = "" THEN <<>>
    ELSE <<[Type |-> SpanKind(node), Offset |-> off, Length |-> Units(FlatText(node)),
            URL |-> node.dest, Language |-> <<>>]>>

\* the spans of a subtree rendered at offset off, in the order the spans close
RECURSIVE ClosingSpans(_, _)
RECURSIVE ClosingSpansSeq(_, _, _)
ClosingSpans(node, off) == ClosingSpansSeq(node.children, 1, off) \o OwnSpan(node, off)

ClosingSpansSeq(ch, i, off) ==
    IF i > Len(ch) THEN <<>>
    ELSE ClosingSpans(ch[i], off) \o ClosingSpansSeq(ch, i + 1, off + Units(FlatText(ch[i])))

\* the same spans in the order the spans open
RECURSIVE OpeningSpans(_, _)
RECURSIVE OpeningSpansSeq(_, _, _)
OpeningSpans(node, off) == OwnSpan(node, off) \o OpeningSpansSeq(node.children, 1, off)

OpeningSpansSeq(ch, i, off) ==
    IF i > Len(ch) THEN <<>>
    ELSE OpeningSpans(ch[i], off) \o OpeningSpansSeq(ch, i + 1, off + Units(FlatText(ch[i])))

OfKinds(es, kinds) == SelectSeq(es, LAMBDA e : e.Type \in kinds)

\* the entities a step appended
NewEntities(c0, c1) == SubSeq(c1.entities, Len(c0.entities) + 1, Len(c1.entities))

\* a paragraph's step wrote its text and nothing else but a separating newline
ParagraphRendered(c0, c1, flat) == c1.out \in {c0.out \o flat, c0.out \o <<NL>> \o flat}

\* a text without its leading and trailing newlines
RECURSIVE TrimLeftNL(_)
TrimLeftNL(s) == IF s # <<>> /\ Head(s) = NL THEN TrimLeftNL(Tail(s)) ELSE s

TrimBlankLines(s) == TrimLeftNL(TrimRightNL(s))

(***************************************************************************)
(* Properties of the tree converter (specification Spec).                  *)
(***************************************************************************)

\* C1: every entity of the returned list lies within the returned text:
\* Offset >= 0 and Offset + Length <= the UTF-16 length of the trimmed text.
C1_EntitiesWithinText ==
    pc = "done" =>
        \A k \in 1..Len(res.entities) :
            /\ res.entities[k].Offset >= 0
            /\ res.entities[k].Offset + res.entities[k].Length <= Units(res.text)

\* C2: the entities a paragraph adds are listed in the order their spans open:
\* a parent's entity before the entities of the nodes nested in it.
C2_Step(c0, c1, block, flat) ==
    NewEntities(c0, c1) = OpeningSpans(block, Units(c1.out) - Units(flat))

C2_OpeningOrder ==
    [][(idx' = idx + 1 /\ doc.children[idx].type = "Paragraph")
        => C2_Step(c, c', doc.children[idx], FlatText(doc.children[idx]))]_vars

\* C5: visiting a paragraph adds exactly one entity per Strong, Emph, Del and
\* Code node, of kind bold, italic, strikethrough and code, over the UTF-16 span
\* of the node's text, and writes the nodes' text and nothing else.
InlineKinds == {"bold", "italic", "strikethrough", "code"}

C5_Step(c0, c1, block, flat) ==
    /\ ParagraphRendered(c0, c1, flat)
    /\ OfKinds(NewEntities(c0, c1), InlineKinds)
         = OfKinds(ClosingSpans(block, Units(c1.out) - Units(flat)), InlineKinds)

C5_InlineSpans ==
    [][(idx' = idx + 1 /\ doc.children[idx].type = "Paragraph")
        => C5_Step(c, c', doc.children[idx], FlatText(doc.children[idx]))]_vars

\* a paragraph "<emoji>`*b*`" is rendered: a code entity of three units after the
\* two units of the emoji, the stars kept in the text
C5_Witness ==
    /\ idx > 1
    /\ doc.children[1] = Paragraph(<<TE, Code(<<ChStar, ChB, ChStar>>)>>)
    /\ c.entities[1].Type = "code"
    /\ c.entities[1].Offset = 2
    /\ c.entities[1].Length = 3
    /\ SubSeq(c.out, 1, 4) = <<ChEmoji, ChStar, ChB, ChStar>>

\* C7: visiting a paragraph adds exactly one text_link entity per Link node, with
\* the destination as URL, over the span of the label; the text written is the
\* label, never the destination.
C7_Step(c0, c1, block, flat) ==
    /\ ParagraphRendered(c0, c1, flat)
    /\ OfKinds(NewEntities(c0, c1), {"text_link"})
         = OfKinds(ClosingSpans(block, Units(c1.out) - Units(flat)), {"text_link"})

C7_LinkSpans ==
    [][(idx' = idx + 1 /\ doc.children[idx].type = "Paragraph")
        => C7_Step(c, c', doc.children[idx], FlatText(doc.children[idx]))]_vars

\* a paragraph "<emoji>[a](u)a" is rendered: one text_link to u over the label
C7_Witness ==
    /\ idx > 1
    /\ doc.children[1] = Paragraph(<<TE, Link(<<ChU>>, <<TA>>), TA>>)
    /\ OfKinds(c.entities, {"text_link"})
         = <<[Type |-> "text_link", Offset |-> 2, Length |-> 1,
              URL |-> <<ChU>>, Language |-> <<>>]>>
    /\ SubSeq(c.out, 1, 3) = <<ChEmoji, ChA, ChA>>

\* C8: visiting a fenced code block adds a pre entity whose length is the UTF-16
\* length of the literal without its leading and trailing blank lines.
C8_Step(block, pre) ==
    /\ pre.Type = "pre"
    /\ pre.Length = Units(TrimBlankLines(ReplaceCRLF(block.literal)))

C8_TrimmedCodeBlock ==
    [][(idx' = idx + 1 /\ doc.children[idx].type = "CodeBlock")
        => C8_Step(doc.children[idx], c'.entities[Len(c'.entities)])]_vars

\* C10: visiting a heading adds, after the entities of its inline content, an
\* underline entity and, iff the level is 1, a bold entity, each over exactly the
\* heading's text, which lies between two newlines before and one after.
HeadingKinds(level) == IF level = 1 THEN {"underline", "bold"} ELSE {"underline"}

C10_Own(c0, block, flat, own) ==
    /\ Len(own) = Cardinality(HeadingKinds(block.level))
    /\ {own[k].Type : k \in 1..Len(own)} = HeadingKinds(block.level)
    /\ \A k \in 1..Len(own) :
          own[k].Offset = Units(c0.out) + 2 /\ own[k].Length = Units(flat)

C10_Entities(c0, block, flat, inner, new) ==
    /\ Len(new) >= Len(inner)
    /\ SubSeq(new, 1, Len(inner)) = inner
    /\ C10_Own(c0, block, flat, SubSeq(new, Len(inner) + 1, Len(new)))

C10_Step(c0, c1, block, flat) ==
    /\ c1.out = c0.out \o <<NL, NL>> \o flat \o <<NL>>
    /\ C10_Entities(c0, block, flat, ClosingSpans(block, Units(c0.out) + 2),
                    NewEntities(c0, c1))

C10_HeadingSpans ==
    [][(idx' = idx + 1 /\ doc.children[idx].type = "Heading")
        => C10_Step(c, c', doc.children[idx], FlatText(doc.children[idx]))]_vars

\* a level 1 heading "<emoji>" after a paragraph: underline and bold over the two
\* units of the emoji; a level 2 heading "a<emoji>" first: underline only
C10_Witness ==
    /\ pc = "done"
    /\ Len(doc.children) = 2
    /\ doc.children[1] = Heading(2, <<TA, Strong(<<TE>>)>>)
    /\ doc.children[2] = Heading(1, <<TE>>)
    /\ OfKinds(res.entities, {"underline", "bold"})
         = <<[Type |-> "bold", Offset |-> 3, Length |-> 2, URL |-> <<>>, Language |-> <<>>],
             [Type |-> "underline", Offset |-> 2, Length |-> 3, URL |-> <<>>, Language |-> <<>>],
             [Type |-> "underline", Offset |-> 8, Length |-> 2, URL |-> <<>>, Language |-> <<>>],
             [Type |-> "bold", Offset |-> 8, Length |-> 2, URL |-> <<>>, Language |-> <<>>]>>

(***************************************************************************)
(* Properties of the regex parser (specification SpecRegex).               *)
(***************************************************************************)

\* C3: the blockquote entity a line adds covers exactly the text rendered for the
\* quote: its length is the offset after the quote's content was written (the
\* line's closing newline apart) minus its own offset.
RenderedEnd(ps) == IF HasSuffix(ps.output, <<NL>>) THEN ps.pos - 1 ELSE ps.pos

C3_Step(ps, e) == e.Type = "blockquote" => e.Length = RenderedEnd(ps) - e.Offset

C3_BlockquoteSpan ==
    [][Len(p'.entities) > Len(p.entities) => C3_Step(p', p'.entities[Len(p'.entities)])]_vars

\* C4: the running offset is the UTF-16 length of the text written so far.
C4_OffsetInUnits == p.pos = Units(p.output)

\* C6: for "**a *b***" (italic nested in bold) the text is "a b" with no star left,
\* a bold entity covers all of it and an italic entity lies inside the bold one.
NestedSrc == <<ChStar, ChStar, ChA, SP, ChStar, ChB, ChStar, ChStar, ChStar>>

C6_Inside(outer, inner) ==
    /\ outer.Type = "bold"
    /\ inner.Type = "italic"
    /\ outer.Offset <= inner.Offset
    /\ inner.Offset + inner.Length <= outer.Offset + outer.Length

C6_Nested ==
    (rpc = "done" /\ src = NestedSrc) =>
        /\ rres.text = <<ChA, SP, ChB>>
        /\ \E i, j \in 1..Len(rres.entities) :
              /\ C6_Inside(rres.entities[i], rres.entities[j])
              /\ rres.entities[i].Offset = 0
              /\ rres.entities[i].Length = Units(rres.text)

\* C9: for the text "a", a line end and a fenced code block holding "b", the
\* returned text is "a", one newline, "b", and the pre entity starts one unit
\* after the UTF-16 length of "a".
TextThenCode == <<ChA, NL>> \o Fence \o <<NL, ChB, NL>> \o Fence

C9_TextBeforeCode ==
    (rpc = "done" /\ src = TextThenCode) =>
        /\ rres.text = <<ChA, NL, ChB>>
        /\ rres.entities = <<Entity("pre", Units(<<ChA>>) + 1, Units(<<ChB>>), <<>>, <<>>)>>

(***************************************************************************)
(* Block-level properties of the tree converter (specification Spec).      *)
(***************************************************************************)

\* C11: when a heading is the only block of the document, the returned text is
\* the heading's text with no newline before it, and the heading's underline
\* entity has offset 0.
C11_Result(flat) ==
    /\ res.text = flat
    /\ \A k \in 1..Len(res.entities) :
          res.entities[k].Type = "underline" => res.entities[k].Offset = 0

C11_HeadingFirst ==
    (pc = "done" /\ Len(doc.children) = 1 /\ doc.children[1].type = "Heading")
        => C11_Result(FlatText(doc.children[1]))

\* C12: for the text "a" followed by the line "> **a**" the quote is joined
\* directly onto the preceding text: the returned text is "aa" and the one
\* blockquote entity starts at offset 1, where the preceding text ended.
TextThenQuote == <<ChA, NL, ChGt, SP, ChStar, ChStar, ChA, ChStar, ChStar>>

C12_Quotes(quotes) == Len(quotes) = 1 /\ quotes[1].Offset = Units(<<ChA>>)

C12_QuoteJoined ==
    (rpc = "done" /\ src = TextThenQuote) =>
        /\ rres.text = <<ChA, ChA>>
        /\ C12_Quotes(OfKinds(rres.entities, {"blockquote"}))

\* the decimal numeral of n
RECURSIVE Numeral(_)
Numeral(n) == IF n < 10 THEN <<48 + n>> ELSE Numeral(n \div 10) \o <<48 + (n % 10)>>

\* C13: the k-th item of an ordered list is rendered with the bullet, the decimal
\* numeral of its position k and ". " in front, whatever the list's start value.
OrderedPrefix(k) == <<8226, SP>> \o Numeral(k) \o <<ChDot, SP>>

RECURSIVE OrderedLines(_, _)
OrderedLines(items, k) ==
    IF k > Len(items) THEN <<>>
    ELSE OrderedPrefix(k) \o FlatText(items[k]) \o <<NL>> \o OrderedLines(items, k + 1)

C13_OrderedList ==
    (pc = "done" /\ Len(doc.children) = 1 /\ doc.children[1].type = "List"
                 /\ doc.children[1].ordered)
        => res.text = TrimRightNL(OrderedLines(doc.children[1].children, 1))

\* C14: an unordered list of plain items is rendered one item per line, each as
\* the bullet "• " and the item's text, the lines separated by one newline, and
\* yields no entity.
RECURSIVE BulletLines(_, _)
BulletLines(items, k) ==
    IF k > Len(items) THEN <<>>
    ELSE <<8226, SP>> \o FlatText(items[k]) \o <<NL>> \o BulletLines(items, k + 1)

C14_BulletList ==
    (pc = "done" /\ Len(doc.children) = 1 /\ doc.children[1].type = "List"
                 /\ ~doc.children[1].ordered)
        => /\ res.text = TrimRightNL(BulletLines(doc.children[1].children, 1))
           /\ res.entities = <<>>

\* C15: visiting a paragraph writes, before the paragraph's text, one newline if
\* the paragraph has a previous sibling and the buffer is non-empty and does not
\* end in a newline, and nothing otherwise.
ParagraphSeparator(out, hasPrev) ==
    IF hasPrev /\ out # <<>> /\ out[Len(out)] # NL THEN <<NL>> ELSE <<>>

C15_ParagraphSeparated ==
    [][(idx' = idx + 1 /\ doc.children[idx].type = "Paragraph")
        => c'.out = c.out \o ParagraphSeparator(c.out, idx > 1)
                          \o FlatText(doc.children[idx])]_vars

\* two paragraphs "a": one newline between them; a paragraph after a heading,
\* whose output ends in a newline, would get none
C15_Witness ==
    /\ idx = 3
    /\ doc.children[1] = Paragraph(<<TA>>)
    /\ doc.children[2] = Paragraph(<<TA>>)
    /\ c.out = <<ChA, NL, ChA>>

\* C16: visiting a table writes one grid and adds exactly one pre entity without
\* language over all of it, and none for the formatting inside cells: the grid
\* has a line per row and one rule, all lines are equally long with their column
\* borders at the same places, and the cells' texts are its only other content.
PipePositions(line) == {k \in 1..Len(line) : line[k] = 124}

GridAligned(lines, rows) ==
    /\ Len(lines) = rows + 1
    /\ \A i \in 1..Len(lines) :
          /\ Len(lines[i]) = Len(lines[1])
          /\ PipePositions(lines[i]) = PipePositions(lines[1])
          /\ {1, Len(lines[i])} \subseteq PipePositions(lines[i])

GridContent(text) == SelectSeq(text, LAMBDA ch : ch \notin {SP, NL, 45, 124})

C16_Grid(block, text) ==
    /\ GridAligned(SplitLines(TrimRightNL(text)), Len(traverseTableRows(block)))
    /\ GridContent(text) = FlatText(block)

C16_Entity(c0, c1, text) ==
    NewEntities(c0, c1)
        = <<[Type |-> "pre", Offset |-> Units(c1.out) - Units(text),
             Length |-> Units(text), URL |-> <<>>, Language |-> <<>>]>>

C16_Step(c0, c1, block, sep) ==
    /\ SubSeq(c1.out, 1, Len(c0.out) + Len(sep)) = c0.out \o sep
    /\ C16_Entity(c0, c1, SubSeq(c1.out, Len(c0.out) + Len(sep) + 1, Len(c1.out)))
    /\ C16_Grid(block, SubSeq(c1.out, Len(c0.out) + Len(sep) + 1, Len(c1.out)))

C16_TableGrid ==
    [][(idx' = idx + 1 /\ doc.children[idx].type = "Table")
        => C16_Step(c, c', doc.children[idx], ParagraphSeparator(c.out, TRUE))]_vars

\* a table of two rows and two columns after the paragraph "a": one pre entity
\* over the 39 units of the grid, which starts after "a" and a newline
C16_Witness ==
    /\ idx = 3
    /\ doc.children[1] = Paragraph(<<TA>>)
    /\ doc.children[2].type = "Table"
    /\ c.entities = <<[Type |-> "pre", Offset |-> 2, Length |-> 39,
                       URL |-> <<>>, Language |-> <<>>]>>

\* C17: the returned text is the buffer without its trailing newlines and
\* otherwise unchanged: it is a prefix of the buffer, what was cut are newlines
\* only, and it does not end in a newline.
C17_TrimmedResult ==
    pc = "done" =>
        /\ Len(res.text) <= Len(c.out)
        /\ SubSeq(c.out, 1, Len(res.text)) = res.text
        /\ \A k \in (Len(res.text) + 1)..Len(c.out) : c.out[k] = NL
        /\ res.text # <<>> => res.text[Len(res.text)] # NL

\* a heading followed by a code block ending in a blank line: two trailing
\* newlines are cut, the two leading ones of the heading stay
C17_Witness ==
    /\ pc = "done"
    /\ Len(c.out) = Len(res.text) + 2
    /\ SubSeq(res.text, 1, 2) = <<NL, NL>>
    /\ Len(res.text) > 2


\* ---------------------------------------------------------------------
\* C18: for the empty string and for every input made only of spaces,
\* tabs and newlines the parser returns the empty text and no entities.
OnlyWhitespace(s) == \A k \in 1..Len(s) : s[k] \in {SP, TAB, NL}

C18_EmptyInput ==
    (rpc = "done" /\ OnlyWhitespace(src))
        => (rres.text = <<>> /\ rres.entities = <<>>)

C18_Witness ==
    /\ rpc = "done"
    /\ src = <<SP, TAB, NL, SP, TAB>>
    /\ rres.text = <<>>
    /\ rres.entities = <<>>


\* ---------------------------------------------------------------------
\* C19: for every input made only of letters, spaces and newlines (no
\* markdown syntax; several lines, leading spaces and blank lines included)
\* the parser returns no entities and the input with only its trailing
\* newlines trimmed.
PlainText(s) == \A k \in 1..Len(s) : s[k] \in {ChA, ChB, ChU, ChEmoji, SP, NL}

C19_PlainTextKept ==
    (rpc = "done" /\ PlainText(src))
        => (rres.entities = <<>> /\ rres.text = TrimRightNL(src))


\* ---------------------------------------------------------------------
\* C20: a line with unterminated emphasis ("a **b"), unterminated emphasis
\* and code ("_a `b") or an unterminated link ("[a](u"), alone or next to a
\* plain line, is returned unchanged and without entities.
UnterminatedLines ==
    { <<ChA, SP, ChStar, ChStar, ChB>>,
      <<ChUnderscore, ChA, SP, ChBacktick, ChB>>,
      <<ChLBr, ChA, ChRBr, ChLPar, ChU>> }

UnterminatedTexts ==
    UnterminatedLines
        \cup {<<ChA, NL>> \o u : u \in UnterminatedLines}
        \cup {u \o <<NL, ChA>> : u \in UnterminatedLines}

C21_FailureHandled == pc # "panic"


\* ---------------------------------------------------------------------
\* C23: CheckAccess(id, username) is true exactly when id is the value of an
\* entry of the access list that is a whole decimal integer, or username is
\* one of the other entries with a leading "@" stripped; with no entries it
\* is false.
WholeDecimal(e) == e # <<>> /\ \A k \in 1..Len(e) : e[k] \in Ch0..Ch9

Granted(entries, id, username) ==
    \E k \in 1..Len(entries) :
        \/ WholeDecimal(entries[k]) /\ DecimalValue(entries[k]) = id
        \/ ~WholeDecimal(entries[k]) /\ TrimPrefixAt(entries[k]) = username

C23_AccessDecision ==
    ap.pc = "done" => (ap.granted <=> Granted(ap.entries, ap.id, ap.username))


\* the reply chain that ends at id, oldest first: the chain of the message replied
\* to, then the message stored under id with its side and text; empty for an id
\* with no stored message
RECURSIVE ReplyChain(_, _)
ReplyChain(conversation, id) ==
    IF id \notin DOMAIN conversation THEN <<>>
    ELSE (IF conversation[id].ReplyTo = <<>> THEN <<>>
          ELSE ReplyChain(conversation, conversation[id].ReplyTo[1]))
         \o <<[Side |-> conversation[id].Side, Text |-> conversation[id].Text]>>

\* the goroutine holds the result of chain.Read on the conversation it loaded
HasRead(h) == tg # <<>> /\ tg[h].pc \in {"thinking", "gpt", "reply", "storeUser"}

\* C22: MessageChain.Read(id), in Go and in JavaScript, returns the messages of
\* the reply chain that ends at id, oldest first, each with the side and text it
\* was stored with, and the empty list for an id with no stored message: for the
\* stored messages a goroutine read, and for every id of every stored conversation
\* whose chain ends.
C22_ReadOldestFirst ==
    tg # <<>> =>
        /\ \A h \in Goroutines :
              HasRead(h) =>
                  tg[h].storedMessages =
                      ReplyChain(tg[h].root[tg[h].msg.From.ID], ReplyToID(tg[h].msg))
        /\ \A u \in UserIds, id \in 0..MaxMessageID :
              ReadEnds(file[u], id) =>
                  /\ Read(file[u], id) = ReplyChain(file[u], id)
                  /\ jsRead(file[u], id) = ReplyChain(file[u], id)

C22_Witness ==
    /\ tg # <<>>
    /\ \E h \in Goroutines :
          /\ HasRead(h)
          /\ tg[h].storedMessages = <<[Side |-> "user", Text |-> <<ChA>>],
                                      [Side |-> "bot", Text |-> Response]>>
    /\ \E u \in UserIds : Read(file[u], 0) = <<>>


\* the goroutine is between the Lock and the Unlock of Storage.do
InTX(h) == tg[h].pc \in {"load", "messages", "reading", "thinking", "gpt", "reply",
                         "storeUser", "storeBot", "unlock"}

\* C25: storage transactions are mutually exclusive and lose no update: at most
\* one goroutine is between the load and the end of its TX call, every save
\* writes the file as it was loaded by the saving goroutine plus what that
\* goroutine stored, and no message stored in the file ever disappears from it.
C25_Transactions ==
    /\ [](tg # <<>> => \A g, h \in Goroutines : InTX(g) /\ InTX(h) => g = h /\ mutex = h)
    /\ [][tg # <<>> /\ file' # file =>
            /\ \E h \in Goroutines :
                  /\ InTX(h)
                  /\ tg'[h].root = file'
                  /\ \A u \in UserIds :
                        \A id \in DOMAIN file'[u] :
                            id \in DOMAIN file[u] /\ id # tg'[h].msg.MessageID
                                                  /\ id # tg'[h].reply
                            => file'[u][id] = file[u][id]
            /\ \A u \in UserIds : DOMAIN file[u] \subseteq DOMAIN file'[u]]_vars

\* a goroutine waits for the mutex while the other one is in its transaction and
\* has saved the user's message
C25_Witness ==
    /\ tg # <<>>
    /\ \E g, h \in Goroutines :
          /\ tg[g].pc = "tx"
          /\ tg[h].pc = "storeBot"
          /\ tg[h].msg.MessageID # tg[g].msg.MessageID
          /\ tg[h].msg.MessageID \in DOMAIN file[Owner.ID]


\* position of the first entry what in a log, 0 if there is none
LogIndex(log, what) ==
    IF \E k \in 1..Len(log) : log[k] = what
    THEN CHOOSE k \in 1..Len(log) : log[k] = what /\ \A j \in 1..(k - 1) : log[j] # what
    ELSE 0

\* the goroutine failed to build the request, to send the thinking message, to get
\* the model's answer or to send the reply
ReplyFailed(log) ==
    \E k \in 1..Len(log) :
        log[k] \in {"text is empty", "thinking failed", "gpt failed", "reply failed"}

\* the messages the goroutine stored are the user's request and, linked to it, the
\* bot's response: under the ids of the message and of the reply, or as the last
\* entries of the list
StoredLinked(g) ==
    IF g.reply # 0
    THEN /\ g.root[g.msg.From.ID][g.msg.MessageID] =
               MessageYAML(g.msg.ReplyToMessage, "user", g.request)
         /\ g.root[g.msg.From.ID][g.reply] =
               MessageYAML(<<g.msg.MessageID>>, "bot", Response)
    ELSE /\ Len(g.root[g.msg.From.ID]) >= 2
         /\ SubSeq(g.root[g.msg.From.ID], Len(g.root[g.msg.From.ID]) - 1,
                   Len(g.root[g.msg.From.ID])) =
               <<[Side |-> "user", Text |-> g.request], [Side |-> "bot", Text |-> Response]>>

\* C26: a goroutine stores the user's request only after it sent the reply, and
\* the bot's response only after the request and linked to it; a goroutine that
\* failed to build the request, to send the thinking message, to get the model's
\* answer or to send the reply has stored nothing, and it ends with the failure
\* message sent.
C26_StoreAfterReply ==
    tg # <<>> =>
        \A h \in Goroutines :
            /\ LogIndex(tg[h].log, "store user") # 0
                  => /\ LogIndex(tg[h].log, "reply") # 0
                     /\ LogIndex(tg[h].log, "reply") < LogIndex(tg[h].log, "store user")
            /\ LogIndex(tg[h].log, "store bot") # 0
                  => /\ LogIndex(tg[h].log, "store user") # 0
                     /\ LogIndex(tg[h].log, "store user") < LogIndex(tg[h].log, "store bot")
                     /\ StoredLinked(tg[h])
            /\ ReplyFailed(tg[h].log)
                  => /\ LogIndex(tg[h].log, "store user") = 0
                     /\ tg[h].pc = "done" => tg[h].log[Len(tg[h].log)] = "failure"


\* the sender of the message is neither the bot itself nor granted by the
\* AccessChecker
SenderDenied(msg) ==
    /\ msg.From.ID # botInfo.ID
    /\ ~CheckAccess(accessChecker, msg.From.ID, msg.From.UserName)

\* a /start command, a text or a media message
HandledType(msg) == msg.Command = "start" \/ msg.Text # <<>> \/ msg.Photo

\* C27: a message whose sender is neither the bot itself nor granted by the
\* AccessChecker never enters a storage transaction, so it causes no completion
\* request and no write to the storage; whether it is a command, a text or a
\* media message, the goroutine that handles it ends with the access-denied reply
\* as all it sent (and with nothing sent for a message of no handled type).
C27_AccessDenied ==
    tg # <<>> =>
        \A h \in Goroutines :
            tg[h].pc # "idle" /\ SenderDenied(tg[h].msg) =>
                /\ tg[h].pc = "done"
                /\ tg[h].root = <<>>
                /\ tg[h].log = IF HandledType(tg[h].msg) THEN <<"denied">> ELSE <<>>

\* a stranger's /start command and a stranger's captioned photo have been handled
\* while nothing is stored
C27_Witness ==
    /\ tg # <<>>
    /\ \E g, h \in Goroutines :
          /\ SenderDenied(tg[g].msg) /\ tg[g].msg.Command = "start" /\ tg[g].pc = "done"
          /\ SenderDenied(tg[h].msg) /\ tg[h].msg.Photo /\ tg[h].msg.Caption # <<>>
          /\ tg[h].log = <<"denied">>
    /\ \A u \in UserIds : file[u] = <<>>


RECURSIVE ConcatTexts(_)
ConcatTexts(messages) ==
    IF messages = <<>> THEN <<>> ELSE Head(messages) \o ConcatTexts(Tail(messages))

\* C29: a converted reply longer than MaxTextLength characters is sent in chunks,
\* none empty and none longer than MaxTextLength characters, whose texts in send
\* order make up the converted text, and the message returned is the last one
\* sent; every iteration of the loop shortens what remains to be sent, so the loop
\* terminates.
C29_ReplyChunks ==
    /\ [](rp # <<>> /\ rp.pc = "done" /\ Len(rp.text) > MaxTextLength =>
            /\ \A k \in 1..Len(rp.sent) :
                  Len(rp.sent[k]) >= 1 /\ Len(rp.sent[k]) <= MaxTextLength
            /\ ConcatTexts(rp.sent) = rp.text
            /\ rp.returned = Len(rp.sent))
    /\ [][rp # <<>> /\ rp.pc = "loop" /\ rp'.pc = "loop" =>
            Len(rp'.remaining) < Len(rp.remaining)]_vars


\* C30: in the JavaScript storage a failed transaction rejects only its own call:
\* every call that has settled ran its callback, a rejected call was rejected with
\* its own error, and a callback that loaded got the file as the calls before it
\* left it (the numbers of the earlier calls that stored).
C30_FailureIsolated ==
    js # <<>> =>
        \A k \in 1..Len(js.calls) :
            js.calls[k].state # "pending" =>
                /\ js.calls[k].ran # ""
                /\ js.calls[k].state = "rejected" => js.calls[k].error = k
                /\ \A j \in 1..Len(js.calls[k].root) : js.calls[k].root[j] < k


\* the spans of two annotations are disjoint or one contains the other
SpansNest(x, y) ==
    \/ x.Offset + x.Length <= y.Offset
    \/ y.Offset + y.Length <= x.Offset
    \/ x.Offset <= y.Offset /\ y.Offset + y.Length <= x.Offset + x.Length
    \/ y.Offset <= x.Offset /\ x.Offset + x.Length <= y.Offset + y.Length

AllNest(entities) ==
    \A a, b \in 1..Len(entities) : SpansNest(entities[a], entities[b])

\* C24: in every conversion result, of the tree converter and of the JavaScript
\* parser, any two annotations are disjoint or the span of one contains the span
\* of the other: spans never partially overlap.
C24_SpansNest ==
    /\ pc = "done" => AllNest(res.entities)
    /\ rpc = "done" => AllNest(rres.entities)

====
